---------------------------- MODULE Spec2Model ----------------------------
(***************************************************************************)
(* Work-order lifecycle and audit engine of dawamr/work-order-system-go.   *)
(*                                                                         *)
(* The repository holds two builds of the work-order controller:          *)
(*   "v1"  controllers/work_order_controller.go lines 1-571: both update  *)
(*         handlers write the status history, UpdateWorkOrderStatus       *)
(*         validates the transition, there is no audit log;               *)
(*   "v2"  the same file, lines 573-1357: audit log, Delete and custom    *)
(*         logs; no history row after the one of CreateWorkOrder.         *)
(* A deployment runs one of them; `build` says which.  The progress        *)
(* controller, the models and CreateWorkOrder are the same in both.        *)
(***************************************************************************)
EXTENDS Integers, Sequences, FiniteSets, TLC

(***************************************************************************)
(* Bounds of the model.                                                    *)
(***************************************************************************)
MaxWorkOrders == 2      \* work orders created in the main specification
MaxTransitions == 1     \* status-history rows written by updates (v1)
MaxProgress == 1        \* rows of work_order_progress
MaxAuditLogs == 1       \* rows of audit_logs
MaxDayOrders == 1001    \* creates of one day in the numbering specification

(***************************************************************************)
(* Enumerations of the models package.                                     *)
(***************************************************************************)
StatusPending == "pending"
StatusInProgress == "in_progress"
StatusCompleted == "completed"

RoleProductionManager == "production_manager"
RoleOperator == "operator"

ActionUpdate == "update"
ActionDelete == "delete"
ActionCustom == "custom"

\* fiber status codes the handlers answer with
StatusOK == "200 OK"
StatusCreated == "201 Created"
StatusBadRequest == "400 Bad Request"
StatusForbidden == "403 Forbidden"
StatusNotFound == "404 Not Found"
StatusInternalServerError == "500 Internal Server Error"

(***************************************************************************)
(* The users table.  Registration is not part of the lifecycle: the table  *)
(* is fixed, one production manager and two operators.                     *)
(***************************************************************************)
Users == (1 :> RoleProductionManager) @@ (2 :> RoleOperator) @@ (3 :> RoleOperator)

(***************************************************************************)
(* The (user_id, role) pairs a verified bearer token can carry.  Protected *)
(* takes both from the token's claims and never reads the users table, so  *)
(* a token outlives its user: id 4 is a manager whose row is gone.         *)
(***************************************************************************)
Tokens ==
    { [user_id |-> 1, role |-> RoleProductionManager],
      [user_id |-> 2, role |-> RoleOperator],
      [user_id |-> 3, role |-> RoleOperator],
      [user_id |-> 4, role |-> RoleProductionManager] }

(***************************************************************************)
(* An optional value (a nil interface, or a value).                        *)
(***************************************************************************)
Nil == << >>
Some(x) == << x >>

Min2(a, b) == IF a < b THEN a ELSE b

(***************************************************************************)
(* time.Time: an instant (in hours) and the zone it is shown in.  The      *)
(* database keeps the instant and hands it back in its own zone.           *)
(***************************************************************************)
Zones == {"Z", "+07:00"}
Offset(zone) == IF zone = "Z" THEN 0 ELSE 7
DBZone == "Z"
ZeroTime == [unix |-> 0, zone |-> "Z"]
IsZero(t) == t.unix = 0
FromDB(unix) == [unix |-> unix, zone |-> DBZone]

\* t.Format(time.RFC3339): the wall clock of the value's zone and the zone
FormatRFC3339(t) == [wall |-> t.unix + Offset(t.zone), zone |-> t.zone]
\* time.Parse(time.RFC3339, s)
ParseRFC3339(s) == [unix |-> s.wall - Offset(s.zone), zone |-> s.zone]
\* a.UTC().Equal(b.UTC())
TimeEqual(a, b) == a.unix = b.unix

(***************************************************************************)
(* Work-order numbers: "WO-" date "-" sequence, kept as the date's digits  *)
(* and the sequence's digits.                                              *)
(***************************************************************************)
Day1 == << 2, 0, 2, 5, 0, 2, 0, 1 >>

RECURSIVE Digits(_)
Digits(n) == IF n < 10 THEN << n >> ELSE Append(Digits(n \div 10), n % 10)

\* fmt.Sprintf("%03d", n): at least three digits, zero padded, never cut
Sprintf03d(n) ==
    LET d == Digits(n)
    IN  IF Len(d) >= 3 THEN d
        ELSE [i \in 1..3 |-> IF i <= 3 - Len(d) THEN 0 ELSE d[i - (3 - Len(d))]]

RECURSIVE DigitsValue(_)
DigitsValue(d) ==
    IF Len(d) = 0 THEN 0
    ELSE 10 * DigitsValue(SubSeq(d, 1, Len(d) - 1)) + d[Len(d)]

\* fmt.Sscanf(s, "%03d", &n): reads at most three digits
Sscanf03d(d) == DigitsValue(SubSeq(d, 1, Min2(3, Len(d))))

\* the order of two digit strings as text (ORDER BY work_order_number)
RECURSIVE TextLess(_, _)
TextLess(a, b) ==
    IF Len(a) = 0 THEN Len(b) > 0
    ELSE IF Len(b) = 0 THEN FALSE
    ELSE IF a[1] # b[1] THEN a[1] < b[1]
    ELSE TextLess(Tail(a), Tail(b))

VARIABLES
    build,        \* "v1" or "v2": which controller the deployment runs
    today,        \* time.Now().Format("20060102")
    workOrders,   \* table work_orders: row i has primary key i
    history,      \* table work_order_status_history, in insertion order
    progress,     \* table work_order_progress, in insertion order
    auditLogs,    \* table audit_logs, in insertion order
    errorLog,     \* how many "Error creating audit log" lines the server logged
    inflight,     \* per worker: the request it is in the middle of, or Nil
    engine,       \* the snapshots handed to the audit engine on their own
    last          \* the last request handled and the response it got

vars ==
    << build, today, workOrders, history, progress, auditLogs, errorLog,
       inflight, engine, last >>

\* the workers that handle requests side by side
Procs == {"w1", "w2"}

\* a faulty variant of the middleware below: every role is let through
RoleAuthorizationAnyRole(u, roles) == TRUE

\* middleware.RoleAuthorization(roles...): is the caller let through?
RoleAuthorization(u, roles) == u.role \in roles

(***************************************************************************)
(* gorm's default scope on a model with DeletedAt: deleted_at IS NULL.     *)
(***************************************************************************)
LiveIDs == { i \in 1..Len(workOrders) : ~workOrders[i].deleted_at }

\* database.DB.First(&workOrder, id)
\* a faulty variant of the lookup below: soft-deleted rows are found too
FoundUnscoped(id) == id \in 1..Len(workOrders)

Found(id) == id \in LiveIDs

(***************************************************************************)
(* isValidStatusTransition                                                 *)
(***************************************************************************)
isValidStatusTransition(from, to) ==
    CASE from = StatusPending -> to = StatusInProgress
      [] from = StatusInProgress -> to = StatusCompleted
      [] OTHER -> FALSE

(***************************************************************************)
(* GenerateWorkOrderNumber: the latest live number of today, as text,      *)
(* scanned and incremented.                                                *)
(***************************************************************************)
\* WHERE work_order_number LIKE 'WO-<today>-%' (and deleted_at IS NULL)
OfToday(i) == ~workOrders[i].deleted_at /\ workOrders[i].work_order_number.date = today

\* ORDER BY work_order_number DESC, first row; 0 when there is none.  The
\* rows are compared from the newest down.
LatestOfDay ==
    LET n == Len(workOrders)
    IN  IF \A i \in 1..n : ~OfToday(i) THEN 0
        ELSE CHOOSE i \in 1..n :
               /\ OfToday(i)
               /\ \A k \in 1..n :
                     LET j == n + 1 - k
                     IN  \/ j = i
                         \/ ~OfToday(j)
                         \/ TextLess(workOrders[j].work_order_number.seq,
                                     workOrders[i].work_order_number.seq)

GenerateWorkOrderNumber ==
    LET latest == LatestOfDay
        sequence == IF latest = 0 THEN 1
                    ELSE Sscanf03d(workOrders[latest].work_order_number.seq) + 1
    IN  [date |-> today, seq |-> Sprintf03d(sequence)]

\* a faulty variant of the index below: work_order_number is not unique
NumberTakenNever(n) == FALSE

\* the unique index on work_order_number covers soft-deleted rows too
NumberTaken(n) == \E i \in 1..Len(workOrders) : workOrders[i].work_order_number = n

\* what the client of the last request saw: the handler, its status code, and
\* what became of the audit write ("none" when the handler made none)
Response(op, result, audit) == [op |-> op, result |-> result, audit |-> audit]

NoRequest ==
    [product_name |-> "", quantity |-> 0, production_deadline |-> ZeroTime,
     status |-> "", operator_id |-> 0, note |-> ""]

(***************************************************************************)
(* CreateWorkOrder (the same code in both builds)                          *)
(***************************************************************************)
CreateWorkOrder(u, req) ==
    LET reply(r) == Response("CreateWorkOrder", r, "none")
        number == GenerateWorkOrderNumber
        id == Len(workOrders) + 1
        workOrder == [id |-> id,
                      work_order_number |-> number,
                      product_name |-> req.product_name,
                      quantity |-> req.quantity,
                      production_deadline |-> req.production_deadline.unix,
                      status |-> StatusPending,
                      operator_id |-> req.operator_id,
                      deleted_at |-> FALSE]
    IN  IF ~RoleAuthorization(u, {RoleProductionManager})
        THEN /\ last' = reply(StatusForbidden)
             /\ UNCHANGED << inflight, engine, build, today, workOrders, history, progress, auditLogs, errorLog >>
        ELSE IF ~(req.operator_id \in DOMAIN Users /\ Users[req.operator_id] = RoleOperator)
        THEN /\ last' = reply(StatusBadRequest)
             /\ UNCHANGED << inflight, engine, build, today, workOrders, history, progress, auditLogs, errorLog >>
        ELSE IF NumberTaken(number)
        THEN /\ last' = reply(StatusInternalServerError)
             /\ UNCHANGED << inflight, engine, build, today, workOrders, history, progress, auditLogs, errorLog >>
        ELSE /\ workOrders' = Append(workOrders, workOrder)
             /\ history' = Append(history,
                    [work_order_id |-> id, status |-> StatusPending, quantity |-> 0])
             /\ last' = reply(StatusCreated)
             /\ UNCHANGED << inflight, engine, build, today, progress, auditLogs, errorLog >>

(***************************************************************************)
(* The Audit Engine (services/audit_service.go).                           *)
(*                                                                         *)
(* A snapshot is the models.WorkOrder value a handler holds, by json tag.  *)
(* Operator is never preloaded by the handlers that audit, so it is the    *)
(* zero User.  DeletedAt has json:"-".  created_at and updated_at are      *)
(* stamps the store sets.                                                  *)
(***************************************************************************)
\* created_at and updated_at as read from the store, and the updated_at that
\* Save sets from time.Now(): a later instant, in the server's zone
StampLoaded == FromDB(1)
StampSaved == [unix |-> 2, zone |-> "+07:00"]

Snapshot(w, deadline, updated_at) ==
    [id |-> w.id,
     work_order_number |-> w.work_order_number,
     product_name |-> w.product_name,
     quantity |-> w.quantity,
     production_deadline |-> deadline,
     status |-> w.status,
     operator_id |-> w.operator_id,
     operator |-> "zero User",
     created_at |-> StampLoaded,
     updated_at |-> updated_at]

\* a row as database.DB.First reads it
Loaded(w) == Snapshot(w, FromDB(w.production_deadline), StampLoaded)

\* the json tags of the exported fields of models.WorkOrder, "-" left out
JSONTags ==
    {"id", "work_order_number", "product_name", "quantity", "production_deadline",
     "status", "operator_id", "operator", "created_at", "updated_at"}

TimeTags == {"production_deadline", "created_at", "updated_at"}

\* a faulty variant of the list below: updated_at is compared
ignoredFieldsWithoutUpdatedAt == {"created_at", "deleted_at"}

ignoredFields == {"updated_at", "created_at", "deleted_at"}

\* normalizeValue, on the value of field f
normalizeValue(f, v) == IF f \in TimeTags THEN FormatRFC3339(v) ELSE v

\* a faulty variant of the test below: the normalized texts alone decide
FieldChangedByTextOnly(f, old, new) ==
    normalizeValue(f, old[f]) # normalizeValue(f, new[f])

\* the body of the loop of GetChangedFields for one field: is it a change?
FieldChanged(f, old, new) ==
    LET oldInterface == normalizeValue(f, old[f])
        newInterface == normalizeValue(f, new[f])
    IN  /\ oldInterface # newInterface
        /\ ~(f \in TimeTags /\ TimeEqual(ParseRFC3339(oldInterface),
                                         ParseRFC3339(newInterface)))

\* a faulty variant of GetChangedFields: a nil new snapshot is compared as
\* a snapshot without values, so that every compared field is a change
GetChangedFieldsAgainstNil(old, new) ==
    IF old = Nil THEN << >>
    ELSE IF new = Nil
    THEN [f \in JSONTags \ ignoredFields |->
             [old |-> normalizeValue(f, old[1][f]), new |-> Nil]]
    ELSE LET changed == { f \in JSONTags \ ignoredFields :
                              FieldChanged(f, old[1], new[1]) }
         IN  [f \in changed |->
                 [old |-> normalizeValue(f, old[1][f]),
                  new |-> normalizeValue(f, new[1][f])]]

\* GetChangedFields: field -> {old, new}, for the fields that changed
GetChangedFields(old, new) ==
    IF old = Nil \/ new = Nil THEN << >>
    ELSE LET changed == { f \in JSONTags \ ignoredFields :
                              FieldChanged(f, old[1], new[1]) }
         IN  [f \in changed |->
                 [old |-> normalizeValue(f, old[1][f]),
                  new |-> normalizeValue(f, new[1][f])]]

(***************************************************************************)
(* CreateLog: the row it builds, and whether it fails.  stored is whether  *)
(* the insert into audit_logs goes through.                                *)
(***************************************************************************)
CreateLogRow(userID, action, entityType, entityID, old, new, note) ==
    LET changes == GetChangedFields(old, new)
    IN  [user_id |-> userID,
         action |-> action,
         entity_type |-> entityType,
         entity_id |-> entityID,
         old_values |-> IF old # Nil /\ DOMAIN changes # {}
                        THEN Some([f \in DOMAIN changes |-> changes[f].old]) ELSE Nil,
         new_values |-> IF new # Nil /\ DOMAIN changes # {}
                        THEN Some([f \in DOMAIN changes |-> changes[f].new]) ELSE Nil,
         note |-> note]

\* a faulty variant of the test below: the actor is not looked up
CreateLogFailsOnlyOnInsert(userID, stored) == ~stored

CreateLogFails(userID, stored) == userID \notin DOMAIN Users \/ ~stored

\* a faulty variant of CreateLog: no row when two snapshots show no change
CreateLogSkippingEmptyDiff(userID, action, entityType, entityID, old, new, note, stored) ==
    IF CreateLogFails(userID, stored) THEN auditLogs
    ELSE IF old # Nil /\ new # Nil /\ DOMAIN GetChangedFields(old, new) = {}
    THEN auditLogs
    ELSE Append(auditLogs,
                CreateLogRow(userID, action, entityType, entityID, old, new, note))

\* the audit_logs table after CreateLog
CreateLog(userID, action, entityType, entityID, old, new, note, stored) ==
    IF CreateLogFails(userID, stored) THEN auditLogs
    ELSE Append(auditLogs,
                CreateLogRow(userID, action, entityType, entityID, old, new, note))

AuditOutcome(userID, stored) ==
    IF CreateLogFails(userID, stored) THEN "failed" ELSE "written"

\* a faulty variant of the step below: the audit error is returned
logAuditErrorReturned(failed, reply) ==
    IF failed THEN StatusInternalServerError ELSE reply

\* `if err := auditService.CreateLog(...); err != nil { log.Printf(...) }`
\* followed by the handler's success reply: the error is only logged
logAuditError(failed, reply) == reply

\* the foreign key of work_orders.operator_id on users
OperatorForeignKeyOK(operator_id) == operator_id \in DOMAIN Users

\* a faulty variant of UpdateWorkOrder: the patch's quantity and status are
\* copied into the row also when they are zero
UpdateWorkOrderOverwriting(u, id, req, stored) ==
    LET reply(r, a) == Response("UpdateWorkOrder", r, a)
        old == workOrders[id]
        workOrder ==
            [old EXCEPT
               !.product_name = IF req.product_name # "" THEN req.product_name ELSE @,
               !.quantity = req.quantity,
               !.production_deadline =
                   IF ~IsZero(req.production_deadline)
                   THEN req.production_deadline.unix ELSE @,
               !.status = req.status,
               !.operator_id = IF req.operator_id # 0 THEN req.operator_id ELSE @]
    IN  IF u.role # RoleProductionManager
        THEN /\ last' = reply(StatusForbidden, "none")
             /\ UNCHANGED << inflight, engine, build, today, workOrders, history, progress, auditLogs, errorLog >>
        ELSE IF ~Found(id)
        THEN /\ last' = reply(StatusNotFound, "none")
             /\ UNCHANGED << inflight, engine, build, today, workOrders, history, progress, auditLogs, errorLog >>
        ELSE /\ workOrders' = [workOrders EXCEPT ![id] = workOrder]
             /\ auditLogs' = Append(auditLogs,
                    [user_id |-> u.user_id, action |-> ActionUpdate,
                     entity_type |-> "WorkOrder", entity_id |-> id,
                     old_values |-> Nil, new_values |-> Nil, note |-> << "updated" >>])
             /\ last' = reply(StatusOK, "written")
             /\ UNCHANGED << inflight, engine, build, today, history, progress, errorLog >>

(***************************************************************************)
(* UpdateWorkOrder, build v2                                               *)
(***************************************************************************)
UpdateWorkOrder(u, id, req, stored) ==
    LET reply(r, a) == Response("UpdateWorkOrder", r, a)
        old == workOrders[id]
        workOrder ==
            [old EXCEPT
               !.product_name = IF req.product_name # "" THEN req.product_name ELSE @,
               !.quantity = IF req.quantity > 0 THEN req.quantity ELSE @,
               !.production_deadline =
                   IF ~IsZero(req.production_deadline)
                   THEN req.production_deadline.unix ELSE @,
               !.status = IF req.status # "" THEN req.status ELSE @,
               !.operator_id = IF req.operator_id # 0 THEN req.operator_id ELSE @]
        held == Snapshot(workOrder,
                         IF ~IsZero(req.production_deadline)
                         THEN req.production_deadline
                         ELSE FromDB(old.production_deadline),
                         StampSaved)
    IN  IF ~RoleAuthorization(u, {RoleProductionManager})
        THEN /\ last' = reply(StatusForbidden, "none")
             /\ UNCHANGED << inflight, engine, build, today, workOrders, history, progress, auditLogs, errorLog >>
        ELSE IF ~Found(id)
        THEN /\ last' = reply(StatusNotFound, "none")
             /\ UNCHANGED << inflight, engine, build, today, workOrders, history, progress, auditLogs, errorLog >>
        ELSE IF ~OperatorForeignKeyOK(workOrder.operator_id)
        THEN /\ last' = reply(StatusInternalServerError, "none")
             /\ UNCHANGED << inflight, engine, build, today, workOrders, history, progress, auditLogs, errorLog >>
        ELSE /\ workOrders' = [workOrders EXCEPT ![id] = workOrder]
             /\ auditLogs' = CreateLog(u.user_id, ActionUpdate, "WorkOrder", id,
                                       Some(Loaded(old)), Some(held),
                                       << "updated" >>, stored)
             /\ errorLog' = errorLog + (IF CreateLogFails(u.user_id, stored) THEN 1 ELSE 0)
             /\ last' = reply(logAuditError(CreateLogFails(u.user_id, stored), StatusOK),
                              AuditOutcome(u.user_id, stored))
             /\ UNCHANGED << inflight, engine, build, today, history, progress >>

(***************************************************************************)
(* UpdateWorkOrderStatus, build v2                                         *)
(***************************************************************************)
\* a faulty variant of UpdateWorkOrderStatus: the request's quantity is
\* copied into the row also when it is 0
UpdateWorkOrderStatusOverwriting(u, id, req, stored) ==
    LET reply(r, a) == Response("UpdateWorkOrderStatus", r, a)
        old == workOrders[id]
        workOrder == [old EXCEPT !.status = req.status, !.quantity = req.quantity]
    IN  IF ~Found(id)
        THEN /\ last' = reply(StatusNotFound, "none")
             /\ UNCHANGED << inflight, engine, build, today, workOrders, history, progress, auditLogs, errorLog >>
        ELSE IF u.role = RoleOperator /\ workOrders[id].operator_id # u.user_id
        THEN /\ last' = reply(StatusForbidden, "none")
             /\ UNCHANGED << inflight, engine, build, today, workOrders, history, progress, auditLogs, errorLog >>
        ELSE /\ workOrders' = [workOrders EXCEPT ![id] = workOrder]
             /\ auditLogs' = Append(auditLogs,
                    [user_id |-> u.user_id, action |-> ActionUpdate,
                     entity_type |-> "WorkOrder", entity_id |-> id,
                     old_values |-> Nil, new_values |-> Nil,
                     note |-> << "status updated", old.status, workOrder.status >>])
             /\ last' = reply(StatusOK, "written")
             /\ UNCHANGED << inflight, engine, build, today, history, progress, errorLog >>

UpdateWorkOrderStatus(u, id, req, stored) ==
    LET reply(r, a) == Response("UpdateWorkOrderStatus", r, a)
        old == workOrders[id]
        workOrder ==
            [old EXCEPT
               !.status = req.status,
               !.quantity = IF req.quantity > 0 THEN req.quantity ELSE @]
    IN  IF u.role = RoleOperator /\ ~Found(id)
        THEN /\ last' = reply(StatusNotFound, "none")
             /\ UNCHANGED << inflight, engine, build, today, workOrders, history, progress, auditLogs, errorLog >>
        ELSE IF u.role = RoleOperator /\ workOrders[id].operator_id # u.user_id
        THEN /\ last' = reply(StatusForbidden, "none")
             /\ UNCHANGED << inflight, engine, build, today, workOrders, history, progress, auditLogs, errorLog >>
        ELSE IF u.role # RoleOperator /\ u.role # RoleProductionManager
        THEN /\ last' = reply(StatusForbidden, "none")
             /\ UNCHANGED << inflight, engine, build, today, workOrders, history, progress, auditLogs, errorLog >>
        ELSE IF ~Found(id)
        THEN /\ last' = reply(StatusNotFound, "none")
             /\ UNCHANGED << inflight, engine, build, today, workOrders, history, progress, auditLogs, errorLog >>
        ELSE /\ workOrders' = [workOrders EXCEPT ![id] = workOrder]
             /\ auditLogs' = CreateLog(u.user_id, ActionUpdate, "WorkOrder", id,
                                       Some(Loaded(old)),
                                       Some(Snapshot(workOrder,
                                                     FromDB(old.production_deadline),
                                                     StampSaved)),
                                       << "status updated", old.status, workOrder.status >>,
                                       stored)
             /\ errorLog' = errorLog + (IF CreateLogFails(u.user_id, stored) THEN 1 ELSE 0)
             /\ last' = reply(logAuditError(CreateLogFails(u.user_id, stored), StatusOK),
                              AuditOutcome(u.user_id, stored))
             /\ UNCHANGED << inflight, engine, build, today, history, progress >>

\* a delete that takes the status history of the work order with it
DeleteWorkOrderCascade(u, id, stored) ==
    LET reply(r, a) == Response("DeleteWorkOrder", r, a)
    IN  IF u.role # RoleProductionManager
        THEN /\ last' = reply(StatusForbidden, "none")
             /\ UNCHANGED << inflight, engine, build, today, workOrders, history, progress, auditLogs, errorLog >>
        ELSE IF ~Found(id)
        THEN /\ last' = reply(StatusNotFound, "none")
             /\ UNCHANGED << inflight, engine, build, today, workOrders, history, progress, auditLogs, errorLog >>
        ELSE /\ workOrders' = [workOrders EXCEPT ![id].deleted_at = TRUE]
             /\ history' = SelectSeq(history, LAMBDA h : h.work_order_id # id)
             /\ auditLogs' = CreateLog(u.user_id, ActionDelete, "WorkOrder", id,
                                       Some(Loaded(workOrders[id])), Nil,
                                       << "deleted" >>, stored)
             /\ errorLog' = errorLog + (IF CreateLogFails(u.user_id, stored) THEN 1 ELSE 0)
             /\ last' = reply(logAuditError(CreateLogFails(u.user_id, stored), StatusOK),
                              AuditOutcome(u.user_id, stored))
             /\ UNCHANGED << inflight, engine, build, today, progress >>

(***************************************************************************)
(* DeleteWorkOrder, build v2: a soft delete                                *)
(***************************************************************************)
DeleteWorkOrder(u, id, stored) ==
    LET reply(r, a) == Response("DeleteWorkOrder", r, a)
    IN  IF ~RoleAuthorization(u, {RoleProductionManager})
        THEN /\ last' = reply(StatusForbidden, "none")
             /\ UNCHANGED << inflight, engine, build, today, workOrders, history, progress, auditLogs, errorLog >>
        ELSE IF ~Found(id)
        THEN /\ last' = reply(StatusNotFound, "none")
             /\ UNCHANGED << inflight, engine, build, today, workOrders, history, progress, auditLogs, errorLog >>
        ELSE /\ workOrders' = [workOrders EXCEPT ![id].deleted_at = TRUE]
             /\ auditLogs' = CreateLog(u.user_id, ActionDelete, "WorkOrder", id,
                                       Some(Loaded(workOrders[id])), Nil,
                                       << "deleted" >>, stored)
             /\ errorLog' = errorLog + (IF CreateLogFails(u.user_id, stored) THEN 1 ELSE 0)
             /\ last' = reply(logAuditError(CreateLogFails(u.user_id, stored), StatusOK),
                              AuditOutcome(u.user_id, stored))
             /\ UNCHANGED << inflight, engine, build, today, history, progress >>

(***************************************************************************)
(* CreateWorkOrderLog, build v2 (the route admits production managers)     *)
(***************************************************************************)
CreateWorkOrderLog(u, id, req, stored) ==
    LET reply(r, a) == Response("CreateWorkOrderLog", r, a)
        workOrder == workOrders[id]
        newWorkOrder == [workOrder EXCEPT !.status = req.status]
    IN  IF ~RoleAuthorization(u, {RoleProductionManager})
        THEN /\ last' = reply(StatusForbidden, "none")
             /\ UNCHANGED << inflight, engine, build, today, workOrders, history, progress, auditLogs, errorLog >>
        ELSE IF req.note = ""
        THEN /\ last' = reply(StatusBadRequest, "none")
             /\ UNCHANGED << inflight, engine, build, today, workOrders, history, progress, auditLogs, errorLog >>
        ELSE IF ~Found(id)
        THEN /\ last' = reply(StatusNotFound, "none")
             /\ UNCHANGED << inflight, engine, build, today, workOrders, history, progress, auditLogs, errorLog >>
        ELSE IF req.status # "" /\ ~isValidStatusTransition(workOrder.status, req.status)
        THEN /\ last' = reply(StatusBadRequest, "none")
             /\ UNCHANGED << inflight, engine, build, today, workOrders, history, progress, auditLogs, errorLog >>
        ELSE IF CreateLogFails(u.user_id, stored)
        THEN /\ errorLog' = errorLog + 1
             /\ last' = reply(StatusInternalServerError, "failed")
             /\ UNCHANGED << inflight, engine, build, today, workOrders, history, progress, auditLogs >>
        ELSE IF req.status # ""
        THEN /\ auditLogs' = CreateLog(u.user_id, ActionCustom, "WorkOrder", id,
                                       Some(Loaded(workOrder)), Some(Loaded(newWorkOrder)),
                                       << req.note >>, stored)
             /\ workOrders' = [workOrders EXCEPT ![id] = newWorkOrder]
             /\ last' = reply(StatusOK, "written")
             /\ UNCHANGED << inflight, engine, build, today, history, progress, errorLog >>
        ELSE /\ auditLogs' = CreateLog(u.user_id, ActionCustom, "WorkOrder", id,
                                       Nil, Nil, << req.note >>, stored)
             /\ last' = reply(StatusOK, "written")
             /\ UNCHANGED << inflight, engine, build, today, workOrders, history, progress, errorLog >>

(***************************************************************************)
(* UpdateWorkOrder, build v1: the status history is written when the       *)
(* status changes, before the row is saved                                 *)
(***************************************************************************)
UpdateWorkOrderV1(u, id, req) ==
    LET reply(r) == Response("UpdateWorkOrder", r, "none")
        old == workOrders[id]
        workOrder ==
            [old EXCEPT
               !.operator_id = IF req.operator_id # 0 THEN req.operator_id ELSE @,
               !.product_name = IF req.product_name # "" THEN req.product_name ELSE @,
               !.quantity = IF req.quantity > 0 THEN req.quantity ELSE @,
               !.production_deadline =
                   IF ~IsZero(req.production_deadline)
                   THEN req.production_deadline.unix ELSE @,
               !.status = IF req.status # "" THEN req.status ELSE @]
    IN  IF ~RoleAuthorization(u, {RoleProductionManager})
        THEN /\ last' = reply(StatusForbidden)
             /\ UNCHANGED << inflight, engine, build, today, workOrders, history, progress, auditLogs, errorLog >>
        ELSE IF ~Found(id)
        THEN /\ last' = reply(StatusNotFound)
             /\ UNCHANGED << inflight, engine, build, today, workOrders, history, progress, auditLogs, errorLog >>
        ELSE IF /\ req.operator_id # 0
                /\ ~(req.operator_id \in DOMAIN Users
                     /\ Users[req.operator_id] = RoleOperator)
        THEN /\ last' = reply(StatusBadRequest)
             /\ UNCHANGED << inflight, engine, build, today, workOrders, history, progress, auditLogs, errorLog >>
        ELSE /\ history' = IF req.status # "" /\ old.status # req.status
                           THEN Append(history, [work_order_id |-> id,
                                                 status |-> req.status,
                                                 quantity |-> workOrder.quantity])
                           ELSE history
             /\ workOrders' = [workOrders EXCEPT ![id] = workOrder]
             /\ last' = reply(StatusOK)
             /\ UNCHANGED << inflight, engine, build, today, progress, auditLogs, errorLog >>

(***************************************************************************)
(* UpdateWorkOrderStatus, build v1: the transition is validated and        *)
(* written to the status history                                           *)
(***************************************************************************)
UpdateWorkOrderStatusV1(u, id, req) ==
    LET reply(r) == Response("UpdateWorkOrderStatus", r, "none")
        old == workOrders[id]
        workOrder ==
            [old EXCEPT
               !.status = req.status,
               !.quantity = IF req.quantity > 0 THEN req.quantity ELSE @]
    IN  IF ~Found(id)
        THEN /\ last' = reply(StatusNotFound)
             /\ UNCHANGED << inflight, engine, build, today, workOrders, history, progress, auditLogs, errorLog >>
        ELSE IF u.role = RoleOperator /\ old.operator_id # u.user_id
        THEN /\ last' = reply(StatusForbidden)
             /\ UNCHANGED << inflight, engine, build, today, workOrders, history, progress, auditLogs, errorLog >>
        ELSE IF ~isValidStatusTransition(old.status, req.status)
        THEN /\ last' = reply(StatusBadRequest)
             /\ UNCHANGED << inflight, engine, build, today, workOrders, history, progress, auditLogs, errorLog >>
        ELSE /\ workOrders' = [workOrders EXCEPT ![id] = workOrder]
             /\ history' = Append(history, [work_order_id |-> id,
                                            status |-> req.status,
                                            quantity |-> workOrder.quantity])
             /\ last' = reply(StatusOK)
             /\ UNCHANGED << inflight, engine, build, today, progress, auditLogs, errorLog >>

(***************************************************************************)
(* CreateWorkOrderProgress (both builds)                                   *)
(***************************************************************************)
\* a faulty variant of the test below: the role is not looked at
NotAssignedAnyRole(u, workOrder) == workOrder.operator_id # u.user_id

\* `role == models.RoleOperator && workOrder.OperatorID != userID`
NotAssigned(u, workOrder) ==
    u.role = RoleOperator /\ workOrder.operator_id # u.user_id

\* a faulty variant of the test below: only completed orders are refused
NotInProgressOnlyCompleted(workOrder) == workOrder.status = StatusCompleted

\* `workOrder.Status != models.StatusInProgress`
NotInProgress(workOrder) == workOrder.status # StatusInProgress

CreateWorkOrderProgress(u, id, req) ==
    LET reply(r) == Response("CreateWorkOrderProgress", r, "none")
        workOrder == workOrders[id]
    IN  IF ~Found(id)
        THEN /\ last' = reply(StatusNotFound)
             /\ UNCHANGED << inflight, engine, build, today, workOrders, history, progress, auditLogs, errorLog >>
        ELSE IF NotAssigned(u, workOrder)
        THEN /\ last' = reply(StatusForbidden)
             /\ UNCHANGED << inflight, engine, build, today, workOrders, history, progress, auditLogs, errorLog >>
        ELSE IF NotInProgress(workOrder)
        THEN /\ last' = reply(StatusBadRequest)
             /\ UNCHANGED << inflight, engine, build, today, workOrders, history, progress, auditLogs, errorLog >>
        ELSE /\ progress' = Append(progress,
                    [work_order_id |-> id,
                     progress_description |-> req.note,
                     progress_quantity |-> req.quantity])
             /\ last' = reply(StatusCreated)
             /\ UNCHANGED << inflight, engine, build, today, workOrders, history, auditLogs, errorLog >>

(***************************************************************************)
(* The read handlers, as functions of the tables.                          *)
(***************************************************************************)
\* a faulty variant of the lookup below: Unscoped(), soft-deleted rows included
GetWorkOrderByIDUnscoped(id) ==
    IF id \in 1..Len(workOrders) THEN Some(workOrders[id]) ELSE Nil

\* GetWorkOrderByID: the row, or Nil for 404
GetWorkOrderByID(id) == IF Found(id) THEN Some(workOrders[id]) ELSE Nil

\* GetWorkOrders without filters: the ids listed (fewer rows than a page)
GetWorkOrders == LiveIDs

\* GetAssignedWorkOrders of an operator, without a status filter
GetAssignedWorkOrders(userID) ==
    { i \in LiveIDs : workOrders[i].operator_id = userID }

\* GetWorkOrderStatusHistory: the statuses of a work order's rows, oldest first
RECURSIVE StatusesOf(_, _)
StatusesOf(rows, id) ==
    IF rows = << >> THEN << >>
    ELSE IF rows[1].work_order_id = id
         THEN << rows[1].status >> \o StatusesOf(Tail(rows), id)
         ELSE StatusesOf(Tail(rows), id)

(***************************************************************************)
(* The requests the model sends.                                           *)
(***************************************************************************)
IDs == 1..MaxWorkOrders

StatusValues == {StatusPending, StatusInProgress, StatusCompleted}

\* patches of the lifecycle specification: at most one of status and operator
UpdateRequests ==
    { [NoRequest EXCEPT !.status = s] : s \in {""} \cup StatusValues }
    \cup { [NoRequest EXCEPT !.operator_id = 3] }

\* patches of the field specification: every combination of fields
FieldRequests ==
    { [NoRequest EXCEPT !.product_name = p, !.quantity = q,
                        !.production_deadline = d, !.status = s,
                        !.operator_id = o] :
        p \in {"", "B"}, q \in {0, 2},
        d \in {ZeroTime, [unix |-> 2, zone |-> "Z"], [unix |-> 1, zone |-> "+07:00"]},
        s \in {"", StatusInProgress}, o \in {0, 1, 3} }

StatusRequests ==
    { [NoRequest EXCEPT !.status = s, !.quantity = q] :
        s \in StatusValues, q \in {0, 2} }

LogRequests ==
    { [NoRequest EXCEPT !.status = s, !.note = "note"] : s \in {""} \cup StatusValues }
    \cup { NoRequest }

ProgressRequests ==
    { [NoRequest EXCEPT !.note = "50% done", !.quantity = 5] }

CreateRequests ==
    { [NoRequest EXCEPT !.product_name = "A", !.quantity = 1,
                        !.production_deadline = [unix |-> 1, zone |-> "Z"],
                        !.operator_id = o] : o \in {1, 2} }

Init ==
    /\ build \in {"v1", "v2"}
    /\ today = Day1
    /\ workOrders = << >>
    /\ history = << >>
    /\ progress = << >>
    /\ auditLogs = << >>
    /\ errorLog = 0
    /\ inflight = [p \in Procs |-> Nil]
    /\ engine = Nil
    /\ last = Response("none", "", "none")

(***************************************************************************)
(* The lifecycle specification: every handler, callers whose users exist,  *)
(* a store that does not fail.                                             *)
(***************************************************************************)
Callers == { u \in Tokens : u.user_id \in DOMAIN Users }

Next ==
    \/ \E u \in Callers, req \in CreateRequests :
          /\ Len(workOrders) < MaxWorkOrders
          /\ CreateWorkOrder(u, req)
    \/ \E u \in Callers, id \in IDs, req \in UpdateRequests :
          /\ build = "v2"
          /\ Len(auditLogs) + errorLog < MaxAuditLogs
          /\ UpdateWorkOrder(u, id, req, TRUE)
    \/ \E u \in Callers, id \in IDs, req \in StatusRequests :
          /\ build = "v2"
          /\ Len(auditLogs) + errorLog < MaxAuditLogs
          /\ UpdateWorkOrderStatus(u, id, req, TRUE)
    \/ \E u \in Callers, id \in IDs :
          /\ build = "v2"
          /\ Len(auditLogs) + errorLog < MaxAuditLogs
          /\ DeleteWorkOrder(u, id, TRUE)
    \/ \E u \in Callers, id \in IDs, req \in LogRequests :
          /\ build = "v2"
          /\ Len(auditLogs) + errorLog < MaxAuditLogs
          /\ CreateWorkOrderLog(u, id, req, TRUE)
    \/ \E u \in Callers, id \in IDs, req \in UpdateRequests :
          /\ build = "v1"
          /\ Len(history) - Len(workOrders) < MaxTransitions
          /\ UpdateWorkOrderV1(u, id, req)
    \/ \E u \in Callers, id \in IDs, req \in StatusRequests :
          /\ build = "v1"
          /\ Len(history) - Len(workOrders) < MaxTransitions
          /\ UpdateWorkOrderStatusV1(u, id, req)
    \/ \E u \in Callers, id \in IDs, req \in ProgressRequests :
          /\ Len(progress) < MaxProgress
          /\ CreateWorkOrderProgress(u, id, req)

Spec == Init /\ [][Next]_vars

(***************************************************************************)
(* The fault specification: build v2 with audit writes that fail, because  *)
(* the caller's user row is gone or because the insert is refused.         *)
(***************************************************************************)
FaultInit == Init /\ build = "v2"

FaultNext ==
    \/ \E u \in Tokens, req \in CreateRequests :
          /\ Len(workOrders) < MaxWorkOrders
          /\ CreateWorkOrder(u, req)
    \/ \E u \in Tokens, id \in IDs, req \in UpdateRequests, stored \in BOOLEAN :
          /\ Len(auditLogs) + errorLog < MaxAuditLogs
          /\ UpdateWorkOrder(u, id, req, stored)
    \/ \E u \in Tokens, id \in IDs, req \in StatusRequests, stored \in BOOLEAN :
          /\ Len(auditLogs) + errorLog < MaxAuditLogs
          /\ UpdateWorkOrderStatus(u, id, req, stored)
    \/ \E u \in Tokens, id \in IDs, stored \in BOOLEAN :
          /\ Len(auditLogs) + errorLog < MaxAuditLogs
          /\ DeleteWorkOrder(u, id, stored)
    \/ \E u \in Tokens, id \in IDs, req \in LogRequests, stored \in BOOLEAN :
          /\ Len(auditLogs) + errorLog < MaxAuditLogs
          /\ CreateWorkOrderLog(u, id, req, stored)

SpecFault == FaultInit /\ [][FaultNext]_vars

(***************************************************************************)
(* The field specification: build v2, patches of every combination of      *)
(* product name, quantity, deadline and status.                            *)
(***************************************************************************)
FieldsNext ==
    \/ \E u \in Callers, req \in CreateRequests :
          /\ Len(workOrders) < MaxWorkOrders
          /\ CreateWorkOrder(u, req)
    \/ \E u \in Callers, id \in IDs, req \in FieldRequests :
          /\ Len(auditLogs) + errorLog < MaxAuditLogs
          /\ UpdateWorkOrder(u, id, req, TRUE)

SpecFields == FaultInit /\ [][FieldsNext]_vars

(***************************************************************************)
(* The numbering specification: the creates of one day, one after another. *)
(***************************************************************************)
NumberNext ==
    \E req \in CreateRequests :
          /\ Len(workOrders) < MaxDayOrders
          /\ req.operator_id = 2
          /\ CreateWorkOrder([user_id |-> 1, role |-> RoleProductionManager], req)

SpecNumber == FaultInit /\ [][NumberNext]_vars


(***************************************************************************)
(* The status route of the running build: PUT /api/workorders/:id/status.  *)
(***************************************************************************)
UpdateStatus(u, id, req) ==
    IF build = "v1" THEN UpdateWorkOrderStatusV1(u, id, req)
    ELSE UpdateWorkOrderStatus(u, id, req, TRUE)


(***************************************************************************)
(* C1.  In every reachable state, the statuses of the history rows of      *)
(* every work order, oldest first, are a path of the transition graph      *)
(* pending -> in_progress -> completed that starts at pending.             *)
(* Build v1's UpdateWorkOrder appends a row for any status a patch names.  *)
(***************************************************************************)
C1_HistoryIsPath ==
    \A id \in 1..Len(workOrders) :
        LET s == StatusesOf(history, id)
        IN  /\ Len(s) >= 1
            /\ s[1] = StatusPending
            /\ \A k \in 1..(Len(s) - 1) : isValidStatusTransition(s[k], s[k + 1])

(***************************************************************************)
(* C2.  UpdateWorkOrderStatus by an authorised caller (a manager or the    *)
(* assignee) with a status that is not the legal successor of the current  *)
(* status returns an error, leaves Status and Quantity as they were and    *)
(* adds no history row.  Build v2 saves whatever status it is given.       *)
(***************************************************************************)
C2_IllegalStatusRejected ==
    [][\A u \in Callers, id \in IDs, req \in StatusRequests :
          ( /\ Found(id)
            /\ ~(u.role = RoleOperator /\ workOrders[id].operator_id # u.user_id)
            /\ ~isValidStatusTransition(workOrders[id].status, req.status)
            /\ UpdateStatus(u, id, req) )
          => /\ last'.result \notin {StatusOK, StatusCreated}
             /\ workOrders'[id].status = workOrders[id].status
             /\ workOrders'[id].quantity = workOrders[id].quantity
             /\ history' = history]_vars

(***************************************************************************)
(* C3.  Every change of a stored Status, by any operation, is              *)
(* pending -> in_progress or in_progress -> completed.  UpdateWorkOrder    *)
(* (both builds) and build v2's UpdateWorkOrderStatus store any status.    *)
(***************************************************************************)
C3_StatusChangesAreLegal ==
    [][\A id \in 1..Len(workOrders) :
          workOrders'[id].status # workOrders[id].status
          => isValidStatusTransition(workOrders[id].status, workOrders'[id].status)]_vars

(***************************************************************************)
(* C4.  The number of history rows of a work order is 1 plus the number    *)
(* of status changes committed on it: a step adds a row for a work order   *)
(* exactly when it creates it or changes its status, and then one row.     *)
(* Build v2 writes a history row only in CreateWorkOrder.                  *)
(***************************************************************************)
C4_OneRowPerStatusChange ==
    [][\A id \in 1..Len(workOrders') :
          Len(StatusesOf(history', id)) =
              IF id > Len(workOrders) THEN 1
              ELSE Len(StatusesOf(history, id))
                   + (IF workOrders'[id].status # workOrders[id].status THEN 1 ELSE 0)]_vars


(***************************************************************************)
(* C5.  CreateWorkOrderProgress on a work order that is found, by a        *)
(* manager or by the assigned operator, creates a progress row if and      *)
(* only if the status is in_progress; otherwise it returns 400 and adds    *)
(* no row.  So every step that adds a progress row adds it to a work       *)
(* order that is in_progress at that moment.                               *)
(***************************************************************************)
C5_ProgressOnlyInProgress ==
    [][/\ \A u \in Callers, id \in IDs, req \in ProgressRequests :
            ( /\ last'.op = "CreateWorkOrderProgress"
              /\ Found(id)
              /\ ~(u.role = RoleOperator /\ workOrders[id].operator_id # u.user_id)
              /\ CreateWorkOrderProgress(u, id, req) )
            => IF workOrders[id].status = StatusInProgress
               THEN /\ last'.result = StatusCreated
                    /\ progress' = Append(progress,
                           [work_order_id |-> id,
                            progress_description |-> req.note,
                            progress_quantity |-> req.quantity])
               ELSE /\ last'.result = StatusBadRequest
                    /\ progress' = progress
       /\ Len(progress') > Len(progress)
            => LET row == progress'[Len(progress')]
               IN  /\ Found(row.work_order_id)
                   /\ workOrders[row.work_order_id].status = StatusInProgress]_vars

\* a progress row has just been created, and its work order is in_progress
C5_Witness ==
    /\ last.op = "CreateWorkOrderProgress"
    /\ last.result = StatusCreated
    /\ Len(progress) >= 1
    /\ workOrders[progress[Len(progress)].work_order_id].status = StatusInProgress

C8_DeletedStillReturnedById ==
    \A id \in 1..Len(workOrders) :
        workOrders[id].deleted_at
        => /\ GetWorkOrderByID(id) # Nil
           /\ id \notin GetWorkOrders
           /\ \A o \in DOMAIN Users : id \notin GetAssignedWorkOrders(o)

(***************************************************************************)
(* C8, amended.  After DeleteWorkOrder the row is still stored, with       *)
(* deleted_at set, but GetWorkOrderByID answers 404 for it and it is not   *)
(* in the listings GetWorkOrders and GetAssignedWorkOrders.                *)
(***************************************************************************)
C8_DeletedHiddenEverywhere ==
    /\ [](\A id \in 1..Len(workOrders) :
            workOrders[id].deleted_at
            => /\ workOrders[id].id = id
               /\ GetWorkOrderByID(id) = Nil
               /\ id \notin GetWorkOrders
               /\ \A o \in DOMAIN Users : id \notin GetAssignedWorkOrders(o))
    /\ [][\A u \in Callers, id \in IDs :
            ( /\ build = "v2"
              /\ last'.op = "DeleteWorkOrder"
              /\ u.role = RoleProductionManager
              /\ Found(id)
              /\ DeleteWorkOrder(u, id, TRUE) )
            => /\ last'.result = StatusOK
               /\ workOrders' = [workOrders EXCEPT ![id].deleted_at = TRUE]]_vars

\* a manager has just deleted a work order, and another one is still listed
C8_Witness ==
    /\ last.op = "DeleteWorkOrder"
    /\ last.result = StatusOK
    /\ \E id \in 1..Len(workOrders) : workOrders[id].deleted_at
    /\ GetWorkOrders # {}


(***************************************************************************)
(* C7.  The numbers given by the sequential creates of one day have an     *)
(* 8-digit date and a 3-digit sequence; the first sequence is 001, each    *)
(* later one is the highest sequence of the day so far plus one, and no    *)
(* number is given twice.  The 1000th create of a day gets the 4-digit     *)
(* sequence 1000.                                                          *)
(***************************************************************************)
C7_NumbersWellFormed ==
    [][Len(workOrders') > Len(workOrders)
        => LET new == workOrders'[Len(workOrders')].work_order_number
               n == Len(workOrders)
           IN  /\ Len(new.date) = 8
               /\ Len(new.seq) = 3
               /\ n = 0 => DigitsValue(new.seq) = 1
               /\ n > 0 =>
                    /\ \A i \in 1..n :
                         DigitsValue(workOrders[i].work_order_number.seq)
                             < DigitsValue(new.seq)
                    /\ \E i \in 1..n :
                         DigitsValue(workOrders[i].work_order_number.seq) + 1
                             = DigitsValue(new.seq)
               /\ \A i \in 1..n : workOrders[i].work_order_number # new]_vars

(***************************************************************************)
(* C9.  UpdateWorkOrder by a manager with a patch that holds a new         *)
(* product name and nothing else adds no history row, changes no other     *)
(* field of the work order, and adds exactly one audit row, whose changed  *)
(* fields are exactly {product_name}.                                      *)
(***************************************************************************)
C9_NameOnlyPatch ==
    [][last'.op = "UpdateWorkOrder"
       => \A u \in { c \in Callers : c.role = RoleProductionManager },
             id \in LiveIDs,
             req \in { q \in FieldRequests :
                         /\ q = [NoRequest EXCEPT !.product_name = q.product_name]
                         /\ q.product_name # "" } :
          ( /\ req.product_name # workOrders[id].product_name
            /\ UpdateWorkOrder(u, id, req, TRUE) )
          => /\ history' = history
             /\ workOrders' = [workOrders EXCEPT ![id].product_name = req.product_name]
             /\ Len(auditLogs') = Len(auditLogs) + 1
             /\ SubSeq(auditLogs', 1, Len(auditLogs)) = auditLogs
             /\ LET row == auditLogs'[Len(auditLogs')]
                IN  /\ row.entity_id = id
                    /\ row.action = ActionUpdate
                    /\ row.old_values # Nil /\ row.new_values # Nil
                    /\ DOMAIN row.old_values[1] = {"product_name"}
                    /\ DOMAIN row.new_values[1] = {"product_name"}
                    /\ row.old_values[1].product_name = workOrders[id].product_name
                    /\ row.new_values[1].product_name = req.product_name]_vars

\* a patch has just renamed a work order and nothing else, and was audited
C9_Witness ==
    /\ last.op = "UpdateWorkOrder"
    /\ last.result = StatusOK
    /\ Len(auditLogs) >= 1
    /\ LET row == auditLogs[Len(auditLogs)]
       IN  /\ row.new_values # Nil
           /\ DOMAIN row.new_values[1] = {"product_name"}
           /\ workOrders[row.entity_id].product_name = "B"
           /\ workOrders[row.entity_id].status = StatusPending

(***************************************************************************)
(* C10.  When the audit write of UpdateWorkOrder, UpdateWorkOrderStatus    *)
(* or DeleteWorkOrder fails (the caller's user row is not found, or the    *)
(* insert is refused), the change to the work order stays saved, no audit  *)
(* row is added, and the caller still gets 200.                            *)
(***************************************************************************)
C10_AuditFailureKeepsMutation ==
    [][\A u \in Tokens, id \in IDs, stored \in BOOLEAN :
          /\ \A req \in UpdateRequests :
               (last'.audit = "failed" /\ UpdateWorkOrder(u, id, req, stored))
               => /\ last'.result = StatusOK
                  /\ auditLogs' = auditLogs
                  /\ workOrders' = [workOrders EXCEPT
                        ![id].status = IF req.status # "" THEN req.status ELSE @,
                        ![id].operator_id =
                            IF req.operator_id # 0 THEN req.operator_id ELSE @]
          /\ \A req \in StatusRequests :
               (last'.audit = "failed" /\ UpdateWorkOrderStatus(u, id, req, stored))
               => /\ last'.result = StatusOK
                  /\ auditLogs' = auditLogs
                  /\ workOrders' = [workOrders EXCEPT
                        ![id].status = req.status,
                        ![id].quantity = IF req.quantity > 0 THEN req.quantity ELSE @]
          /\ (last'.audit = "failed" /\ DeleteWorkOrder(u, id, stored))
               => /\ last'.result = StatusOK
                  /\ auditLogs' = auditLogs
                  /\ workOrders' = [workOrders EXCEPT ![id].deleted_at = TRUE]]_vars

\* a delete has just been answered with 200 although its audit write failed
C10_Witness ==
    /\ last.op = "DeleteWorkOrder"
    /\ last.audit = "failed"
    /\ last.result = StatusOK
    /\ auditLogs = << >>
    /\ \E id \in 1..Len(workOrders) : workOrders[id].deleted_at


Idle(p) == inflight[p] = Nil

Running(p, op, pc) ==
    /\ inflight[p] # Nil
    /\ inflight[p][1].op = op
    /\ inflight[p][1].pc = pc

Locals(op, pc, u, id, req, old, workOrder) ==
    [op |-> op, pc |-> pc, u |-> u, id |-> id, req |-> req,
     old |-> old, workOrder |-> workOrder]

\* CreateWorkOrder up to GenerateWorkOrderNumber: the reads
CreateWorkOrderBegin(p, u, req) ==
    LET reply(r) == Response("CreateWorkOrder", r, "none")
        workOrder == [id |-> 0,
                      work_order_number |-> GenerateWorkOrderNumber,
                      product_name |-> req.product_name,
                      quantity |-> req.quantity,
                      production_deadline |-> req.production_deadline.unix,
                      status |-> StatusPending,
                      operator_id |-> req.operator_id,
                      deleted_at |-> FALSE]
    IN  /\ Idle(p)
        /\ IF ~RoleAuthorization(u, {RoleProductionManager})
           THEN /\ last' = reply(StatusForbidden)
                /\ UNCHANGED << inflight, engine, build, today, workOrders, history,
                                progress, auditLogs, errorLog >>
           ELSE IF ~(req.operator_id \in DOMAIN Users
                     /\ Users[req.operator_id] = RoleOperator)
           THEN /\ last' = reply(StatusBadRequest)
                /\ UNCHANGED << inflight, engine, build, today, workOrders, history,
                                progress, auditLogs, errorLog >>
           ELSE /\ inflight' = [inflight EXCEPT ![p] =
                       Some(Locals("CreateWorkOrder", "insert", u, 0, req,
                                   workOrder, workOrder))]
                /\ UNCHANGED << engine, build, today, workOrders, history,
                                progress, auditLogs, errorLog, last >>

\* database.DB.Create(&workOrder)
CreateWorkOrderInsert(p) ==
    LET r == inflight[p][1]
        id == Len(workOrders) + 1
    IN  /\ Running(p, "CreateWorkOrder", "insert")
        /\ IF NumberTaken(r.workOrder.work_order_number)
           THEN /\ last' = Response("CreateWorkOrder", StatusInternalServerError, "none")
                /\ inflight' = [inflight EXCEPT ![p] = Nil]
                /\ UNCHANGED << engine, build, today, workOrders, history,
                                progress, auditLogs, errorLog >>
           ELSE /\ workOrders' = Append(workOrders, [r.workOrder EXCEPT !.id = id])
                /\ inflight' = [inflight EXCEPT ![p] =
                       Some([r EXCEPT !.pc = "history", !.id = id])]
                /\ UNCHANGED << engine, build, today, history, progress,
                                auditLogs, errorLog, last >>

\* database.DB.Create(&statusHistory) and the reply
CreateWorkOrderHistory(p) ==
    LET r == inflight[p][1]
    IN  /\ Running(p, "CreateWorkOrder", "history")
        /\ history' = Append(history,
               [work_order_id |-> r.id, status |-> StatusPending, quantity |-> 0])
        /\ last' = Response("CreateWorkOrder", StatusCreated, "none")
        /\ inflight' = [inflight EXCEPT ![p] = Nil]
        /\ UNCHANGED << engine, build, today, workOrders, progress, auditLogs, errorLog >>


\* UpdateWorkOrderStatus up to the assignments to the local copy: the reads
\* and the checks of the running build
UpdateWorkOrderStatusBegin(p, u, id, req) ==
    LET reply(r) == Response("UpdateWorkOrderStatus", r, "none")
        old == workOrders[id]
        workOrder ==
            [old EXCEPT
               !.status = req.status,
               !.quantity = IF req.quantity > 0 THEN req.quantity ELSE @]
        refused ==
            IF build = "v1"
            THEN IF ~Found(id) THEN StatusNotFound
                 ELSE IF u.role = RoleOperator /\ old.operator_id # u.user_id
                 THEN StatusForbidden
                 ELSE IF ~isValidStatusTransition(old.status, req.status)
                 THEN StatusBadRequest
                 ELSE ""
            ELSE IF u.role = RoleOperator /\ ~Found(id) THEN StatusNotFound
                 ELSE IF u.role = RoleOperator /\ old.operator_id # u.user_id
                 THEN StatusForbidden
                 ELSE IF u.role # RoleOperator /\ u.role # RoleProductionManager
                 THEN StatusForbidden
                 ELSE IF ~Found(id) THEN StatusNotFound
                 ELSE ""
    IN  /\ Idle(p)
        /\ IF refused # ""
           THEN /\ last' = reply(refused)
                /\ UNCHANGED << inflight, engine, build, today, workOrders, history,
                                progress, auditLogs, errorLog >>
           ELSE /\ inflight' = [inflight EXCEPT ![p] =
                       Some(Locals("UpdateWorkOrderStatus", "save", u, id, req,
                                   old, workOrder))]
                /\ UNCHANGED << engine, build, today, workOrders, history,
                                progress, auditLogs, errorLog, last >>

\* database.DB.Save(&workOrder): every column of the row is written
UpdateWorkOrderStatusSave(p) ==
    LET r == inflight[p][1]
    IN  /\ Running(p, "UpdateWorkOrderStatus", "save")
        /\ workOrders' = [workOrders EXCEPT ![r.id] = r.workOrder]
        /\ inflight' = [inflight EXCEPT ![p] =
               Some([r EXCEPT !.pc = IF build = "v1" THEN "history" ELSE "audit"])]
        /\ UNCHANGED << engine, build, today, history, progress, auditLogs,
                        errorLog, last >>

\* build v1: database.DB.Create(&statusHistory) and the reply
UpdateWorkOrderStatusHistory(p) ==
    LET r == inflight[p][1]
    IN  /\ Running(p, "UpdateWorkOrderStatus", "history")
        /\ history' = Append(history, [work_order_id |-> r.id,
                                       status |-> r.req.status,
                                       quantity |-> r.workOrder.quantity])
        /\ last' = Response("UpdateWorkOrderStatus", StatusOK, "none")
        /\ inflight' = [inflight EXCEPT ![p] = Some([r EXCEPT !.pc = "done"])]
        /\ UNCHANGED << engine, build, today, workOrders, progress, auditLogs, errorLog >>

\* build v2: auditService.CreateLog and the reply
UpdateWorkOrderStatusAudit(p) ==
    LET r == inflight[p][1]
    IN  /\ Running(p, "UpdateWorkOrderStatus", "audit")
        /\ auditLogs' = CreateLog(r.u.user_id, ActionUpdate, "WorkOrder", r.id,
                                  Some(Loaded(r.old)),
                                  Some(Snapshot(r.workOrder,
                                                FromDB(r.old.production_deadline),
                                                StampSaved)),
                                  << "status updated", r.old.status, r.workOrder.status >>,
                                  TRUE)
        /\ errorLog' = errorLog + (IF CreateLogFails(r.u.user_id, TRUE) THEN 1 ELSE 0)
        /\ last' = Response("UpdateWorkOrderStatus",
                            logAuditError(CreateLogFails(r.u.user_id, TRUE), StatusOK),
                            AuditOutcome(r.u.user_id, TRUE))
        /\ inflight' = [inflight EXCEPT ![p] = Some([r EXCEPT !.pc = "done"])]
        /\ UNCHANGED << engine, build, today, workOrders, history, progress >>

\* the next write of worker p (the insert or Save of the work order, or the
\* insert of the history row) fails: the handler returns 500 and what it
\* wrote before stays written, as no write runs inside a transaction
FailWrite(p) ==
    /\ inflight[p] # Nil
    /\ inflight[p][1].pc \in {"insert", "save", "history"}
    /\ last' = Response(inflight[p][1].op, StatusInternalServerError, "none")
    /\ inflight' = [inflight EXCEPT ![p] =
           IF inflight[p][1].op = "CreateWorkOrder" THEN Nil
           ELSE Some([inflight[p][1] EXCEPT !.pc = "failed"])]
    /\ UNCHANGED << engine, build, today, workOrders, history, progress,
                    auditLogs, errorLog >>

\* the status requests of the interleaved specification
RaceRequests ==
    { [NoRequest EXCEPT !.status = StatusInProgress, !.quantity = 2],
      [NoRequest EXCEPT !.status = StatusInProgress],
      [NoRequest EXCEPT !.status = StatusCompleted] }

\* the manager and the assigned operator
RaceCallers == { u \in Callers : u.user_id \in {1, 2} }

RaceCreateRequests == { req \in CreateRequests : req.operator_id = 2 }

RaceNext ==
    \/ \E p \in Procs, u \in RaceCallers, req \in RaceCreateRequests :
          /\ Len(workOrders) < MaxWorkOrders
          /\ CreateWorkOrderBegin(p, u, req)
    \/ \E p \in Procs : CreateWorkOrderInsert(p)
    \/ \E p \in Procs : CreateWorkOrderHistory(p)
    \/ \E p \in Procs, u \in RaceCallers, id \in IDs, req \in RaceRequests :
          UpdateWorkOrderStatusBegin(p, u, id, req)
    \/ \E p \in Procs : UpdateWorkOrderStatusSave(p)
    \/ \E p \in Procs : UpdateWorkOrderStatusHistory(p)
    \/ \E p \in Procs : UpdateWorkOrderStatusAudit(p)
    \/ \E p \in Procs : FailWrite(p)

SpecRace == Init /\ [][RaceNext]_vars


(***************************************************************************)
(* C12.  Two CreateWorkOrder calls whose reads and inserts interleave can  *)
(* both compute the same number; the unique index lets one insert through  *)
(* and fails the other, so that no two stored work orders ever have the    *)
(* same work-order number, under any interleaving.                         *)
(***************************************************************************)
C12_NumbersStayUnique ==
    /\ [](\A i, j \in 1..Len(workOrders) :
            workOrders[i].work_order_number = workOrders[j].work_order_number
            => i = j)
    /\ [][\A p \in Procs :
            ( /\ Running(p, "CreateWorkOrder", "insert")
              /\ \E i \in 1..Len(workOrders) :
                    workOrders[i].work_order_number
                        = inflight[p][1].workOrder.work_order_number
              /\ inflight'[p] # inflight[p] )
            => /\ workOrders' = workOrders
               /\ history' = history
               /\ inflight'[p] = Nil
               /\ last'.op = "CreateWorkOrder"
               /\ last'.result = StatusInternalServerError]_vars

\* one worker has stored the number that the other worker, which computed the
\* same number, is about to insert
C12_Witness ==
    /\ Running("w1", "CreateWorkOrder", "history")
    /\ Running("w2", "CreateWorkOrder", "insert")
    /\ inflight["w1"][1].workOrder.work_order_number
           = inflight["w2"][1].workOrder.work_order_number
    /\ workOrders[inflight["w1"][1].id].work_order_number
           = inflight["w2"][1].workOrder.work_order_number

(***************************************************************************)
(* C13.  A failure between the writes of a status-changing operation       *)
(* never leaves a saved status change without its history row: in the      *)
(* build that writes the history (v1), whenever no status update is in     *)
(* the middle of its writes on a work order whose creation wrote its      *)
(* first history row, the last history row of that work order carries its  *)
(* stored status.  UpdateWorkOrderStatus saves the row and inserts the     *)
(* history row in two separate writes, outside any transaction.            *)
(***************************************************************************)
C13_NoStatusWithoutHistory ==
    build = "v1"
    => \A id \in 1..Len(workOrders) :
          LET s == StatusesOf(history, id)
              busy == \E p \in Procs :
                         /\ inflight[p] # Nil
                         /\ inflight[p][1].id = id
                         /\ inflight[p][1].pc \notin {"done", "failed"}
          IN  (~busy /\ Len(s) >= 1) => s[Len(s)] = workOrders[id].status

(***************************************************************************)
(* C14.  Two UpdateWorkOrderStatus calls that run concurrently on one      *)
(* work order (both read the row before either saves it) leave the Status  *)
(* and Quantity that running them one after the other, in one of the two   *)
(* orders, would leave.  Each call saves every column of the copy it read. *)
(***************************************************************************)
SerialStep(w, req) ==
    IF build = "v1" /\ ~isValidStatusTransition(w.status, req.status) THEN w
    ELSE [w EXCEPT !.status = req.status,
                   !.quantity = IF req.quantity > 0 THEN req.quantity ELSE @]

C14_ConcurrentUpdatesSerializable ==
    ( /\ Running("w1", "UpdateWorkOrderStatus", "done")
      /\ Running("w2", "UpdateWorkOrderStatus", "done")
      /\ inflight["w1"][1].id = inflight["w2"][1].id
      /\ inflight["w1"][1].old = inflight["w2"][1].old )
    => LET r1 == inflight["w1"][1]
           r2 == inflight["w2"][1]
           final == workOrders[r1.id]
           serial == { SerialStep(SerialStep(r1.old, r1.req), r2.req),
                       SerialStep(SerialStep(r1.old, r2.req), r1.req) }
       IN  \E w \in serial : w.status = final.status /\ w.quantity = final.quantity



(***************************************************************************)
(* C15.  In every reachable state the operator_id of every work order      *)
(* names an existing user whose role is operator.  CreateWorkOrder checks  *)
(* this; the v2 UpdateWorkOrder copies a non-zero operator_id into the row *)
(* and leaves the check to the foreign key, which only asks for a user.    *)
(***************************************************************************)
C15_OperatorIsOperator ==
    \A i \in 1..Len(workOrders) :
        /\ workOrders[i].operator_id \in DOMAIN Users
        /\ Users[workOrders[i].operator_id] = RoleOperator



(***************************************************************************)
(* C16.  CreateWorkOrder, UpdateWorkOrder (either build) and               *)
(* DeleteWorkOrder called by a user who is not a production manager        *)
(* return 403 and leave the work orders, the status history and the audit  *)
(* logs as they were.                                                      *)
(***************************************************************************)
C16_ManagerOnlyOperations ==
    [][\A u \in Callers, id \in IDs :
          ( /\ last'.op \in {"CreateWorkOrder", "UpdateWorkOrder", "DeleteWorkOrder"}
            /\ u.role # RoleProductionManager
            /\ \/ \E req \in CreateRequests : CreateWorkOrder(u, req)
               \/ \E req \in UpdateRequests :
                     IF build = "v1" THEN UpdateWorkOrderV1(u, id, req)
                     ELSE UpdateWorkOrder(u, id, req, TRUE)
               \/ DeleteWorkOrder(u, id, TRUE) )
          => /\ last'.result = StatusForbidden
             /\ UNCHANGED << workOrders, history, auditLogs >>]_vars

\* an operator has just been refused the update of an existing work order
\* that is assigned to that operator
C16_Witness ==
    /\ last.op = "UpdateWorkOrder"
    /\ last.result = StatusForbidden
    /\ Len(workOrders) = 1
    /\ workOrders[1].operator_id = 2
    /\ workOrders[1].status = StatusPending
    /\ Len(history) = 1



EngineRow ==
    [id |-> 1,
     work_order_number |-> [date |-> Day1, seq |-> Sprintf03d(1)],
     product_name |-> "A", quantity |-> 1, production_deadline |-> 1,
     status |-> StatusPending, operator_id |-> 2, deleted_at |-> FALSE]

\* models.WorkOrder values: the tagged fields and DeletedAt (json:"-")
EngineSnapshots ==
    { [Snapshot([EngineRow EXCEPT !.product_name = p], d, u)
           EXCEPT !.created_at = c] @@ [deleted_at |-> del] :
        p \in {"A", "B"},
        d \in {FromDB(1), [unix |-> 1, zone |-> "+07:00"], FromDB(2)},
        u \in {StampLoaded, StampSaved},
        c \in {StampLoaded, StampSaved},
        del \in {Nil, Some(StampSaved)} }

\* the actors of the CreateLog calls: user 1 exists, user 4 does not
EngineActors == {1, 4}

EngineInit ==
    /\ build = "v2"
    /\ today = Day1
    /\ workOrders = << >>
    /\ history = << >>
    /\ progress = << >>
    /\ auditLogs = << >>
    /\ errorLog = 0
    /\ inflight = [p \in Procs |-> Nil]
    /\ \E old \in EngineSnapshots, new \in EngineSnapshots :
          engine = [old |-> old, new |-> new, changes |-> Nil,
                    actor |-> 0, given |-> << FALSE, FALSE >>]
    /\ last = Response("none", "", "none")

\* changes := s.GetChangedFields(old, new)
EngineGetChangedFields ==
    /\ engine.changes = Nil
    /\ engine' = [engine EXCEPT
           !.changes = Some(GetChangedFields(Some(engine.old), Some(engine.new)))]
    /\ last' = Response("GetChangedFields", "", "none")
    /\ UNCHANGED << build, today, workOrders, history, progress, auditLogs,
                    errorLog, inflight >>

\* err := s.CreateLog(userID, ActionUpdate, "WorkOrder", id, old, new, "")
\* with either snapshot given or nil
EngineCreateLog(userID, withOld, withNew) ==
    /\ Len(auditLogs) < MaxAuditLogs
    /\ auditLogs' = CreateLog(userID, ActionUpdate, "WorkOrder", engine.old.id,
                              IF withOld THEN Some(engine.old) ELSE Nil,
                              IF withNew THEN Some(engine.new) ELSE Nil,
                              "", TRUE)
    /\ engine' = [engine EXCEPT !.actor = userID, !.given = << withOld, withNew >>]
    /\ last' = Response("CreateLog",
                        IF CreateLogFails(userID, TRUE) THEN "error" ELSE "nil",
                        AuditOutcome(userID, TRUE))
    /\ UNCHANGED << build, today, workOrders, history, progress, errorLog, inflight >>

EngineNext ==
    \/ EngineGetChangedFields
    \/ \E userID \in EngineActors, withOld \in BOOLEAN, withNew \in BOOLEAN :
          EngineCreateLog(userID, withOld, withNew)

SpecEngine == EngineInit /\ [][EngineNext]_vars

(***************************************************************************)
(* C18.  GetChangedFields on two snapshots of one work order that differ   *)
(* in nothing but created_at, updated_at and deleted_at returns no changed *)
(* field.                                                                  *)
(***************************************************************************)
C18_TimestampsNotCompared ==
    ( /\ engine.changes # Nil
      /\ \A f \in JSONTags \ {"created_at", "updated_at"} :
            engine.old[f] = engine.new[f] )
    => DOMAIN engine.changes[1] = {}

\* the three timestamps all differ, nothing else does, and the result is empty
C18_Witness ==
    /\ engine.changes # Nil
    /\ engine.old.created_at # engine.new.created_at
    /\ engine.old.updated_at # engine.new.updated_at
    /\ engine.old.deleted_at # engine.new.deleted_at
    /\ \A f \in JSONTags \ {"created_at", "updated_at"} :
          engine.old[f] = engine.new[f]
    /\ DOMAIN engine.changes[1] = {}

(***************************************************************************)
(* C19.  The audit row that CreateLog writes from an old and a new         *)
(* snapshot names the same fields in old_values and in new_values, and     *)
(* they are exactly the compared fields (every tagged field but            *)
(* created_at and updated_at) whose normalized values differ, a time being *)
(* normalized to its text in UTC; a field that did not change is not in    *)
(* the row.                                                                *)
(***************************************************************************)
C19_RowHoldsExactlyTheChanges ==
    ( /\ last.op = "CreateLog"
      /\ last.audit = "written"
      /\ engine.given = << TRUE, TRUE >> )
    => LET row == auditLogs[Len(auditLogs)]
           names(v) == IF v = Nil THEN {} ELSE DOMAIN v[1]
           utc(f, v) == IF f \in {"production_deadline"}
                        THEN FormatRFC3339([unix |-> v.unix, zone |-> "Z"])
                        ELSE v
           differing == { f \in JSONTags \ {"created_at", "updated_at"} :
                             utc(f, engine.old[f]) # utc(f, engine.new[f]) }
       IN  /\ names(row.old_values) = differing
           /\ names(row.new_values) = differing

\* a row that names product_name alone, written from two snapshots whose
\* deadlines are one instant printed in two zones
C19_Witness ==
    /\ last.op = "CreateLog"
    /\ last.audit = "written"
    /\ engine.given = << TRUE, TRUE >>
    /\ engine.old.production_deadline.zone # engine.new.production_deadline.zone
    /\ engine.old.production_deadline.unix = engine.new.production_deadline.unix
    /\ auditLogs[Len(auditLogs)].old_values = Some([product_name |-> "A"])
    /\ auditLogs[Len(auditLogs)].new_values = Some([product_name |-> "B"])

(***************************************************************************)
(* C20.  A CreateLog call whose actor exists appends exactly one row to    *)
(* the audit logs, whichever snapshots it is given, also when it is given  *)
(* both and they show no change.                                           *)
(***************************************************************************)
C20_AlwaysOneRow ==
    [][( /\ last'.op = "CreateLog"
         /\ engine'.actor \in DOMAIN Users
         /\ engine'.changes = engine.changes )
       => /\ Len(auditLogs') = Len(auditLogs) + 1
          /\ SubSeq(auditLogs', 1, Len(auditLogs)) = auditLogs
          /\ last'.result = "nil"]_vars

\* a row without values, written from two snapshots that show no change
C20_Witness ==
    /\ last.op = "CreateLog"
    /\ engine.actor = 1
    /\ engine.given = << TRUE, TRUE >>
    /\ DOMAIN GetChangedFields(Some(engine.old), Some(engine.new)) = {}
    /\ Len(auditLogs) = 1
    /\ auditLogs[1].old_values = Nil
    /\ auditLogs[1].new_values = Nil



(***************************************************************************)
(* C21.  A CreateLog call whose actor id names no user returns an error    *)
(* and writes no audit row, so that the user_id of every audit row names   *)
(* an existing user.                                                       *)
(***************************************************************************)
C21_UnknownActorWritesNothing ==
    /\ [](\A i \in 1..Len(auditLogs) : auditLogs[i].user_id \in DOMAIN Users)
    /\ [][( /\ last'.op = "CreateLog"
            /\ engine'.actor \notin DOMAIN Users )
          => /\ auditLogs' = auditLogs
             /\ last'.result = "error"
             /\ last'.audit = "failed"]_vars

\* CreateLog has just been called for user 4, who has no row, with both
\* snapshots: it returned an error and the audit logs are still empty
C21_Witness ==
    /\ last.op = "CreateLog"
    /\ last.result = "error"
    /\ engine.actor = 4
    /\ engine.given = << TRUE, TRUE >>
    /\ engine.old.product_name # engine.new.product_name
    /\ auditLogs = << >>



(***************************************************************************)
(* The reports (GetWorkOrderSummary, GetWorkOrderSummaryByOperator).       *)
(*                                                                         *)
(* A window is << start, end >>: production_deadline (by operator:         *)
(* created_at) >= start and < end.  Every query of a report starts from    *)
(* database.DB.Model(&models.WorkOrder{}), which carries the soft-delete   *)
(* scope `deleted_at IS NULL`.  Percentage is int64(float64(n) / float64(t)*)
(* * 100), which for the counts that occur here is (n * 100) \div t.       *)
(***************************************************************************)
ReportWindows == { << s, e >> : s \in 0..2, e \in 1..3 }

\* baseQuery of GetWorkOrderSummary
SummaryScope(window) ==
    { i \in LiveIDs : /\ workOrders[i].production_deadline >= window[1]
                      /\ workOrders[i].production_deadline < window[2] }

\* baseQuery of GetWorkOrderSummaryByOperator; created_at is StampLoaded
SummaryByOperatorScope(operatorID, window) ==
    { i \in LiveIDs : /\ workOrders[i].operator_id = operatorID
                      /\ StampLoaded.unix >= window[1]
                      /\ StampLoaded.unix < window[2] }

\* Distinct("product_name").Pluck(...)
SummaryProductNames(scope) == { workOrders[i].product_name : i \in scope }

\* a faulty variant of the count below: the window is forgotten
SummaryTotalWOAnyWindow(scope, productName) ==
    Cardinality({ i \in LiveIDs : workOrders[i].product_name = productName })

\* baseQuery.Where("product_name = ?", productName).Count(&summary.TotalWO)
SummaryTotalWO(scope, productName) ==
    Cardinality({ i \in scope : workOrders[i].product_name = productName })

\* baseQuery.Where("product_name = ? AND status = ?", ...).Count(...)
SummaryStatusCount(scope, productName, status) ==
    Cardinality({ i \in scope : /\ workOrders[i].product_name = productName
                                /\ workOrders[i].status = status })

\* a faulty variant of the count below, over the rows of the whole table
SummaryCancelledUnscoped(scope, productName) ==
    Cardinality({ i \in 1..Len(workOrders) :
                     /\ workOrders[i].product_name = productName
                     /\ workOrders[i].deleted_at })

\* baseQuery.Where("product_name = ? AND deleted_at IS NOT NULL", ...)
\*     .Count(&summary.Cancelled)
SummaryCancelled(scope, productName) ==
    Cardinality({ i \in scope : /\ workOrders[i].product_name = productName
                                /\ workOrders[i].deleted_at })

\* the row of one product
SummaryRow(scope, productName) ==
    [product_name |-> productName,
     total_wo |-> SummaryTotalWO(scope, productName),
     percentage |-> IF Cardinality(scope) > 0
                    THEN (SummaryTotalWO(scope, productName) * 100)
                             \div Cardinality(scope)
                    ELSE 0,
     pending |-> SummaryStatusCount(scope, productName, StatusPending),
     in_progress |-> SummaryStatusCount(scope, productName, StatusInProgress),
     completed |-> SummaryStatusCount(scope, productName, StatusCompleted),
     cancelled |-> SummaryCancelled(scope, productName)]

\* the sum of a column over the product rows
RECURSIVE SumColumn(_, _, _)
SumColumn(scope, names, column) ==
    IF names = {} THEN 0
    ELSE LET n == CHOOSE x \in names : TRUE
         IN  SummaryRow(scope, n)[column] + SumColumn(scope, names \ {n}, column)

\* the summaries of a report: the product rows and, when there is one, the
\* "Total" row appended after them
Summaries(scope) ==
    LET names == SummaryProductNames(scope)
    IN  [rows |-> [n \in names |-> SummaryRow(scope, n)],
         total |-> IF names # {}
                   THEN Some([product_name |-> "Total",
                              total_wo |-> Cardinality(scope),
                              percentage |-> 100,
                              pending |-> SumColumn(scope, names, "pending"),
                              in_progress |-> SumColumn(scope, names, "in_progress"),
                              completed |-> SumColumn(scope, names, "completed"),
                              cancelled |-> SumColumn(scope, names, "cancelled")])
                   ELSE Nil]

GetWorkOrderSummary(window) == Summaries(SummaryScope(window))

GetWorkOrderSummaryByOperator(operatorID, window) ==
    Summaries(SummaryByOperatorScope(operatorID, window))

\* the reply of either report to caller u
ReportRequest(u, op) ==
    /\ last' = Response(op, IF u.role # RoleProductionManager
                            THEN StatusForbidden ELSE StatusOK, "none")
    /\ UNCHANGED << inflight, engine, build, today, workOrders, history,
                    progress, auditLogs, errorLog >>

(***************************************************************************)
(* The report specification: build v2; work orders of two products and    *)
(* two deadlines are created, moved and deleted, and the reports are       *)
(* asked for.                                                              *)
(***************************************************************************)
ReportCreateRequests ==
    { [NoRequest EXCEPT !.product_name = p, !.quantity = 1,
                        !.production_deadline = [unix |-> d, zone |-> "Z"],
                        !.operator_id = 2] :
        p \in {"A", "B"}, d \in {1, 2} }

ReportStatusRequests == { req \in StatusRequests : req.quantity = 0 }

ReportNext ==
    \/ \E u \in RaceCallers, req \in ReportCreateRequests :
          /\ Len(workOrders) < MaxWorkOrders
          /\ CreateWorkOrder(u, req)
    \/ \E u \in RaceCallers, id \in IDs, req \in ReportStatusRequests :
          /\ Len(auditLogs) + errorLog < MaxAuditLogs
          /\ UpdateWorkOrderStatus(u, id, req, TRUE)
    \/ \E u \in RaceCallers, id \in IDs :
          /\ Len(auditLogs) + errorLog < MaxAuditLogs
          /\ DeleteWorkOrder(u, id, TRUE)
    \/ \E u \in RaceCallers :
          ReportRequest(u, "GetWorkOrderSummary")
    \/ \E u \in RaceCallers :
          ReportRequest(u, "GetWorkOrderSummaryByOperator")

SpecReport == FaultInit /\ [][ReportNext]_vars

(***************************************************************************)
(* C22.  For every window, the TotalWO of the product rows of the Summary  *)
(* report add up to the number of work orders in the window, and the       *)
(* "Total" row, when the report has one, carries that number as TotalWO    *)
(* and 100 as Percentage.                                                  *)
(***************************************************************************)
C22_SummaryTotalsAddUp ==
    \A window \in ReportWindows :
        LET report == GetWorkOrderSummary(window)
            inWindow == { i \in 1..Len(workOrders) :
                             /\ ~workOrders[i].deleted_at
                             /\ workOrders[i].production_deadline >= window[1]
                             /\ workOrders[i].production_deadline < window[2] }
            names == DOMAIN report.rows
            sum[S \in SUBSET names] ==
                IF S = {} THEN 0
                ELSE LET n == CHOOSE x \in S : TRUE
                     IN  report.rows[n].total_wo + sum[S \ {n}]
        IN  /\ sum[names] = Cardinality(inWindow)
            /\ report.total # Nil
               => /\ report.total[1].total_wo = Cardinality(inWindow)
                  /\ report.total[1].percentage = 100
            /\ report.total = Nil <=> inWindow = {}

\* the report has been asked for while product A has one work order inside
\* the window << 1, 2 >> and one outside it
C22_Witness ==
    /\ last.op = "GetWorkOrderSummary"
    /\ last.result = StatusOK
    /\ Len(workOrders) = 2
    /\ workOrders[1].product_name = "A" /\ workOrders[1].production_deadline = 1
    /\ workOrders[2].product_name = "A" /\ workOrders[2].production_deadline = 2
    /\ GetWorkOrderSummary(<< 1, 2 >>).total[1].total_wo = 1
    /\ GetWorkOrderSummary(<< 0, 3 >>).rows["A"].total_wo = 2

(***************************************************************************)
(* C27.  In every reachable state and for every window, the Cancelled      *)
(* count of every row of the Summary and of the SummaryByOperator report,  *)
(* the "Total" row included, is 0.                                         *)
(***************************************************************************)
C27_CancelledAlwaysZero ==
    \A window \in ReportWindows :
        \A report \in { GetWorkOrderSummary(window) }
                      \cup { GetWorkOrderSummaryByOperator(o, window) : o \in DOMAIN Users } :
            /\ \A n \in DOMAIN report.rows : report.rows[n].cancelled = 0
            /\ report.total # Nil => report.total[1].cancelled = 0

\* a report has been asked for while product A has a live work order in the
\* window and a soft-deleted one
C27_Witness ==
    /\ last.op \in {"GetWorkOrderSummary", "GetWorkOrderSummaryByOperator"}
    /\ last.result = StatusOK
    /\ Len(workOrders) = 2
    /\ workOrders[1].product_name = "A" /\ workOrders[1].deleted_at
    /\ workOrders[2].product_name = "A" /\ ~workOrders[2].deleted_at
    /\ "A" \in DOMAIN GetWorkOrderSummary(<< 0, 3 >>).rows



(***************************************************************************)
(* C23.  A successful UpdateWorkOrder (build v2) gives each field that the *)
(* patch holds with a non-zero value (product name non-empty, quantity     *)
(* above 0, deadline not the zero time, status non-empty, operator id not  *)
(* 0) the patch's value, and leaves every other field of the work order    *)
(* and every other work order as it was.                                   *)
(***************************************************************************)
C23_OnlyPatchedFieldsChange ==
    [][( /\ last'.op = "UpdateWorkOrder"
         /\ last'.result = StatusOK )
       => \A u \in { c \in Callers : c.role = RoleProductionManager },
             id \in LiveIDs, req \in FieldRequests :
          UpdateWorkOrder(u, id, req, TRUE)
          => LET before == workOrders[id]
                 after == workOrders'[id]
             IN  /\ Len(workOrders') = Len(workOrders)
                 /\ \A j \in 1..Len(workOrders) : j # id => workOrders'[j] = workOrders[j]
                 /\ after.id = before.id
                 /\ after.work_order_number = before.work_order_number
                 /\ after.deleted_at = before.deleted_at
                 /\ after.product_name =
                       IF req.product_name = "" THEN before.product_name
                       ELSE req.product_name
                 /\ after.quantity =
                       IF req.quantity > 0 THEN req.quantity ELSE before.quantity
                 /\ after.production_deadline =
                       IF req.production_deadline.unix = 0
                       THEN before.production_deadline
                       ELSE req.production_deadline.unix
                 /\ after.status =
                       IF req.status = "" THEN before.status ELSE req.status
                 /\ after.operator_id =
                       IF req.operator_id = 0 THEN before.operator_id
                       ELSE req.operator_id]_vars

\* a patch of the deadline alone has just been applied to the second of two
\* work orders: the first, and the other fields of the second, are as created
C23_Witness ==
    /\ last.op = "UpdateWorkOrder"
    /\ last.result = StatusOK
    /\ Len(workOrders) = 2
    /\ workOrders[2].production_deadline = 2
    /\ workOrders[2].product_name = "A"
    /\ workOrders[2].quantity = 1
    /\ workOrders[2].status = StatusPending
    /\ workOrders[2].operator_id = workOrders[1].operator_id
    /\ workOrders[1].production_deadline = 1



(***************************************************************************)
(* C24.  A successful UpdateWorkOrderStatus (either build) sets the        *)
(* quantity of the work order to the request's quantity when that is above *)
(* 0 and leaves it as it was when that is 0; apart from status and         *)
(* quantity no field of the work order changes, and no other work order    *)
(* changes.                                                                *)
(***************************************************************************)
C24_QuantityOnlyWhenPositive ==
    [][( /\ last'.op = "UpdateWorkOrderStatus"
         /\ last'.result = StatusOK )
       => \A u \in Callers, id \in LiveIDs, req \in StatusRequests :
          UpdateStatus(u, id, req)
          => /\ workOrders'[id].quantity =
                   IF req.quantity > 0 THEN req.quantity
                   ELSE workOrders[id].quantity
             /\ workOrders' = [workOrders EXCEPT
                                  ![id].status = workOrders'[id].status,
                                  ![id].quantity = workOrders'[id].quantity]]_vars

\* a status update without a quantity has just moved a work order to
\* in_progress: the quantity is the one it was created with
C24_Witness ==
    /\ last.op = "UpdateWorkOrderStatus"
    /\ last.result = StatusOK
    /\ Len(workOrders) >= 1
    /\ workOrders[1].status = StatusInProgress
    /\ workOrders[1].quantity = 1



(***************************************************************************)
(* C25.  After every successful UpdateWorkOrderStatus the newest status    *)
(* history row of the work order carries the status and the quantity that  *)
(* the work order has after the update.                                    *)
(***************************************************************************)
C25_HistoryRowAfterStatusUpdate ==
    [][( /\ last'.op = "UpdateWorkOrderStatus"
         /\ last'.result = StatusOK )
       => \A u \in Callers, id \in LiveIDs, req \in StatusRequests :
          UpdateStatus(u, id, req)
          => \E i \in 1..Len(history') :
                /\ history'[i].work_order_id = id
                /\ \A j \in (i + 1)..Len(history') : history'[j].work_order_id # id
                /\ history'[i].status = workOrders'[id].status
                /\ history'[i].quantity = workOrders'[id].quantity]_vars



(***************************************************************************)
(* C26 as stated.  Every successful DeleteWorkOrder appends exactly one    *)
(* audit row, with action delete, entity type WorkOrder and the id of the  *)
(* deleted work order, whose old_values and new_values are empty.          *)
(***************************************************************************)
C26_DeleteAlwaysAudited ==
    [][( /\ last'.op = "DeleteWorkOrder"
         /\ last'.result = StatusOK )
       => /\ Len(auditLogs') = Len(auditLogs) + 1
          /\ SubSeq(auditLogs', 1, Len(auditLogs)) = auditLogs
          /\ LET row == auditLogs'[Len(auditLogs')]
             IN  /\ row.action = ActionDelete
                 /\ row.entity_type = "WorkOrder"
                 /\ \A id \in LiveIDs : workOrders'[id].deleted_at => row.entity_id = id
                 /\ row.old_values = Nil
                 /\ row.new_values = Nil]_vars

(***************************************************************************)
(* C26.  Every successful DeleteWorkOrder calls CreateLog once, with the   *)
(* work order as old state and no new state.  When the call succeeds it    *)
(* appends exactly one audit row, with action delete, entity type          *)
(* WorkOrder and the id of the deleted work order, whose old_values and    *)
(* new_values are empty; when the call fails the delete stands, no audit   *)
(* row is written and the error is logged.                                 *)
(***************************************************************************)
C26_DeleteAuditedUnlessLogFails ==
    [][( /\ last'.op = "DeleteWorkOrder"
         /\ last'.result = StatusOK )
       => /\ \E id \in LiveIDs :
                workOrders' = [workOrders EXCEPT ![id].deleted_at = TRUE]
          /\ IF last'.audit = "written"
             THEN /\ Len(auditLogs') = Len(auditLogs) + 1
                  /\ SubSeq(auditLogs', 1, Len(auditLogs)) = auditLogs
                  /\ errorLog' = errorLog
                  /\ LET row == auditLogs'[Len(auditLogs')]
                     IN  /\ row.action = ActionDelete
                         /\ row.entity_type = "WorkOrder"
                         /\ \A id \in LiveIDs :
                               workOrders'[id].deleted_at => row.entity_id = id
                         /\ row.user_id \in DOMAIN Users
                         /\ row.old_values = Nil
                         /\ row.new_values = Nil
             ELSE /\ auditLogs' = auditLogs
                  /\ errorLog' = errorLog + 1]_vars

\* the second of two work orders has just been deleted and audited
C26_Witness ==
    /\ last.op = "DeleteWorkOrder"
    /\ last.result = StatusOK
    /\ last.audit = "written"
    /\ Len(workOrders) = 2
    /\ workOrders[2].deleted_at
    /\ ~workOrders[1].deleted_at
    /\ Len(auditLogs) = 1
    /\ auditLogs[1].action = ActionDelete
    /\ auditLogs[1].entity_id = 2
    /\ auditLogs[1].old_values = Nil



(***************************************************************************)
(* C28.  Under sequential operation CreateWorkOrder called by a production *)
(* manager for an existing operator succeeds in every reachable state,     *)
(* also right after the work order with the day's highest sequence number  *)
(* has been soft-deleted: the number it computes is held by no row.        *)
(* GenerateWorkOrderNumber reads the latest number through the soft-delete *)
(* scope, while the unique index covers the soft-deleted rows too.         *)
(***************************************************************************)
C28_CreateAlwaysSucceeds ==
    [][last'.op = "CreateWorkOrder"
       => \A u \in { c \in Callers : c.role = RoleProductionManager },
             req \in { q \in CreateRequests :
                         /\ q.operator_id \in DOMAIN Users
                         /\ Users[q.operator_id] = RoleOperator } :
          CreateWorkOrder(u, req)
          => /\ last'.result = StatusCreated
             /\ Len(workOrders') = Len(workOrders) + 1
             /\ \A i \in 1..Len(workOrders) :
                   workOrders[i].work_order_number
                       # workOrders'[Len(workOrders')].work_order_number]_vars



(***************************************************************************)
(* CreateWorkOrderLog, step by step: its reads and checks, its CreateLog   *)
(* call, and its Save of the new status, which comes after the audit row.  *)
(***************************************************************************)
CreateWorkOrderLogBegin(p, u, id, req) ==
    LET reply(r) == Response("CreateWorkOrderLog", r, "none")
        workOrder == workOrders[id]
        newWorkOrder == [workOrder EXCEPT !.status = req.status]
        refused ==
            IF ~RoleAuthorization(u, {RoleProductionManager}) THEN StatusForbidden
            ELSE IF req.note = "" THEN StatusBadRequest
            ELSE IF ~Found(id) THEN StatusNotFound
            ELSE IF req.status # "" /\ ~isValidStatusTransition(workOrder.status, req.status)
            THEN StatusBadRequest
            ELSE ""
    IN  /\ Idle(p)
        /\ IF refused # ""
           THEN /\ last' = reply(refused)
                /\ UNCHANGED << inflight, engine, build, today, workOrders, history,
                                progress, auditLogs, errorLog >>
           ELSE /\ inflight' = [inflight EXCEPT ![p] =
                       Some(Locals("CreateWorkOrderLog", "audit", u, id, req,
                                   workOrder, newWorkOrder))]
                /\ UNCHANGED << engine, build, today, workOrders, history,
                                progress, auditLogs, errorLog, last >>

\* auditService.CreateLog(userID, ActionCustom, ...): on an error the handler
\* logs it and returns 500; without a status the handler is done
CreateWorkOrderLogAudit(p) ==
    /\ Running(p, "CreateWorkOrderLog", "audit")
    /\ LET r == inflight[p][1]
       IN  IF CreateLogFails(r.u.user_id, TRUE)
           THEN /\ errorLog' = errorLog + 1
                /\ last' = Response("CreateWorkOrderLog", StatusInternalServerError, "failed")
                /\ inflight' = [inflight EXCEPT ![p] = Nil]
                /\ UNCHANGED << engine, build, today, workOrders, history, progress,
                                auditLogs >>
           ELSE IF r.req.status # ""
           THEN /\ auditLogs' = CreateLog(r.u.user_id, ActionCustom, "WorkOrder", r.id,
                                          Some(Loaded(r.old)), Some(Loaded(r.workOrder)),
                                          << r.req.note >>, TRUE)
                /\ inflight' = [inflight EXCEPT ![p] = Some([r EXCEPT !.pc = "save"])]
                /\ UNCHANGED << engine, build, today, workOrders, history, progress,
                                errorLog, last >>
           ELSE /\ auditLogs' = CreateLog(r.u.user_id, ActionCustom, "WorkOrder", r.id,
                                          Nil, Nil, << r.req.note >>, TRUE)
                /\ last' = Response("CreateWorkOrderLog", StatusOK, "written")
                /\ inflight' = [inflight EXCEPT ![p] = Nil]
                /\ UNCHANGED << engine, build, today, workOrders, history, progress,
                                errorLog >>

\* workOrder.Status = req.Status; database.DB.Save(&workOrder)
CreateWorkOrderLogSave(p) ==
    /\ Running(p, "CreateWorkOrderLog", "save")
    /\ LET r == inflight[p][1]
       IN  /\ workOrders' = [workOrders EXCEPT ![r.id] = r.workOrder]
           /\ last' = Response("CreateWorkOrderLog", StatusOK, "written")
           /\ inflight' = [inflight EXCEPT ![p] = Nil]
           /\ UNCHANGED << engine, build, today, history, progress, auditLogs, errorLog >>

(***************************************************************************)
(* The log specification: build v2; work orders are created, and           *)
(* CreateWorkOrderLog runs step by step on two workers, with a Save that   *)
(* can fail.                                                               *)
(***************************************************************************)
LogNext ==
    \/ \E u \in RaceCallers, req \in RaceCreateRequests :
          /\ Len(workOrders) < MaxWorkOrders
          /\ CreateWorkOrder(u, req)
    \/ \E p \in Procs, u \in Tokens, id \in IDs, req \in LogRequests :
          /\ Len(auditLogs) + errorLog < MaxAuditLogs
          /\ CreateWorkOrderLogBegin(p, u, id, req)
    \/ \E p \in Procs : CreateWorkOrderLogAudit(p)
    \/ \E p \in Procs : CreateWorkOrderLogSave(p)
    \/ \E p \in Procs : FailWrite(p)

SpecLog == FaultInit /\ [][LogNext]_vars

(***************************************************************************)
(* C29.  An audit row with action custom that records a status change of   *)
(* a work order never describes a change that was not committed: once the  *)
(* call that wrote the row is past its Save, the work order has the status *)
(* of the newest such row.  CreateWorkOrderLog writes the audit row first  *)
(* and saves the status after it, outside any transaction.                 *)
(***************************************************************************)
C29_CustomRowMeansCommitted ==
    \A i \in 1..Len(auditLogs) :
        LET row == auditLogs[i]
            id == row.entity_id
            newer == \E j \in (i + 1)..Len(auditLogs) :
                        /\ auditLogs[j].entity_id = id
                        /\ auditLogs[j].action = ActionCustom
                        /\ auditLogs[j].new_values # Nil
            saving == \E p \in Procs : /\ Running(p, "CreateWorkOrderLog", "save")
                                       /\ inflight[p][1].id = id
        IN  ( /\ row.action = ActionCustom
              /\ row.new_values # Nil
              /\ "status" \in DOMAIN row.new_values[1]
              /\ ~newer
              /\ ~saving )
            => workOrders[id].status = row.new_values[1].status



(***************************************************************************)
(* The deletion specification: build v2; work orders are created and       *)
(* deleted, and every writing handler is then called on them again.  One   *)
(* audited call more than MaxAuditLogs is admitted, for the calls that     *)
(* come after a delete.                                                    *)
(***************************************************************************)
DeletedNext ==
    \/ \E u \in RaceCallers, req \in RaceCreateRequests :
          /\ Len(workOrders) < MaxWorkOrders
          /\ CreateWorkOrder(u, req)
    \/ \E u \in RaceCallers, id \in IDs :
          /\ Len(auditLogs) + errorLog <= MaxAuditLogs
          /\ DeleteWorkOrder(u, id, TRUE)
    \/ \E u \in RaceCallers, id \in IDs, req \in UpdateRequests :
          /\ Len(auditLogs) + errorLog <= MaxAuditLogs
          /\ UpdateWorkOrder(u, id, req, TRUE)
    \/ \E u \in RaceCallers, id \in IDs, req \in ReportStatusRequests :
          /\ Len(auditLogs) + errorLog <= MaxAuditLogs
          /\ UpdateWorkOrderStatus(u, id, req, TRUE)
    \/ \E u \in RaceCallers, id \in IDs, req \in LogRequests :
          /\ Len(auditLogs) + errorLog <= MaxAuditLogs
          /\ CreateWorkOrderLog(u, id, req, TRUE)
    \/ \E u \in RaceCallers, id \in IDs, req \in ProgressRequests :
          /\ Len(progress) < MaxProgress
          /\ CreateWorkOrderProgress(u, id, req)

SpecDeleted == FaultInit /\ [][DeletedNext]_vars

(***************************************************************************)
(* C30 as stated.  Once a work order is soft-deleted, every later          *)
(* UpdateWorkOrder, UpdateWorkOrderStatus, CreateWorkOrderProgress,        *)
(* CreateWorkOrderLog and DeleteWorkOrder call on its id returns 404 and   *)
(* changes no row.                                                         *)
(***************************************************************************)
C30_DeletedAlwaysNotFound ==
    [][last'.op \in {"UpdateWorkOrder", "UpdateWorkOrderStatus", "DeleteWorkOrder",
                     "CreateWorkOrderLog", "CreateWorkOrderProgress"}
       => \A u \in RaceCallers,
             id \in { i \in 1..Len(workOrders) : workOrders[i].deleted_at } :
          ( \/ \E req \in UpdateRequests : UpdateWorkOrder(u, id, req, TRUE)
            \/ \E req \in ReportStatusRequests : UpdateWorkOrderStatus(u, id, req, TRUE)
            \/ \E req \in LogRequests : CreateWorkOrderLog(u, id, req, TRUE)
            \/ \E req \in ProgressRequests : CreateWorkOrderProgress(u, id, req)
            \/ DeleteWorkOrder(u, id, TRUE) )
          => /\ last'.result = StatusNotFound
             /\ UNCHANGED << workOrders, history, progress, auditLogs >>]_vars

(***************************************************************************)
(* C30.  Once a work order is soft-deleted it stays as it is: no step      *)
(* changes its row, and every later UpdateWorkOrder,                       *)
(* UpdateWorkOrderStatus, CreateWorkOrderProgress, CreateWorkOrderLog and  *)
(* DeleteWorkOrder call on its id fails and changes no row.  The call      *)
(* returns 404 when it gets as far as the lookup; a call that an earlier   *)
(* check refuses (a caller who is not a production manager in              *)
(* UpdateWorkOrder, DeleteWorkOrder and CreateWorkOrderLog, a missing note *)
(* in CreateWorkOrderLog) returns that check's 403 or 400.                 *)
(***************************************************************************)
C30_DeletedStaysDeleted ==
    /\ [][\A i \in 1..Len(workOrders) :
             workOrders[i].deleted_at => workOrders'[i] = workOrders[i]]_vars
    /\ [][last'.op \in {"UpdateWorkOrder", "UpdateWorkOrderStatus", "DeleteWorkOrder",
                        "CreateWorkOrderLog", "CreateWorkOrderProgress"}
          => \A u \in RaceCallers,
                id \in { i \in 1..Len(workOrders) : workOrders[i].deleted_at } :
             /\ ( \/ \E req \in UpdateRequests : UpdateWorkOrder(u, id, req, TRUE)
                  \/ DeleteWorkOrder(u, id, TRUE) )
                => /\ last'.result = IF u.role = RoleProductionManager
                                     THEN StatusNotFound ELSE StatusForbidden
                   /\ UNCHANGED << workOrders, history, progress, auditLogs >>
             /\ \A req \in LogRequests :
                   CreateWorkOrderLog(u, id, req, TRUE)
                   => /\ last'.result = IF u.role # RoleProductionManager
                                        THEN StatusForbidden
                                        ELSE IF req.note = "" THEN StatusBadRequest
                                        ELSE StatusNotFound
                      /\ UNCHANGED << workOrders, history, progress, auditLogs >>
             /\ ( \/ \E req \in ReportStatusRequests :
                        UpdateWorkOrderStatus(u, id, req, TRUE)
                  \/ \E req \in ProgressRequests : CreateWorkOrderProgress(u, id, req) )
                => /\ last'.result = StatusNotFound
                   /\ UNCHANGED << workOrders, history, progress, auditLogs >>]_vars

\* a manager's status update on a deleted work order has just been answered
\* 404; the delete is the only audit row and the row is as it was deleted
C30_Witness ==
    /\ last.op = "UpdateWorkOrderStatus"
    /\ last.result = StatusNotFound
    /\ Len(workOrders) = 1
    /\ workOrders[1].deleted_at
    /\ workOrders[1].status = StatusPending
    /\ Len(auditLogs) = 1
    /\ auditLogs[1].action = ActionDelete
    /\ Len(history) = 1

=============================================================================
